---- MODULE Spec2Model ----
\* Model of the SMS-to-transaction pipeline of wallet-backup:
\* utils (NormalizeCurrency, CleanPayeeName, Contains), the categorizer,
\* the CIB and Banque Misr extractors and Parser.ParseFile.
\*
\* A Go string is modelled as a sequence of characters.  An ASCII character
\* is the one-character string itself; an Arabic letter is the string of its
\* Unicode name ("KHAH", "SAD", ...), so distinct code points stay distinct.
\* Amounts are held in hundredths (cents): every numeral the extractors
\* accept has at most two fractional digits.
EXTENDS Integers, Sequences, FiniteSets, TLC

VARIABLES
    file,             \* the backup file: "ok", "unreadable" or "undecodable"
    input,            \* backup.SMS: the decoded messages, in arrival order
    senderFilter,     \* ParseFile's senderFilter argument
    startDateFilter,  \* ParseFile's startDateFilter argument
    startDate,        \* the parsed start date: [set, days]
    idx,              \* number of messages of input the loop has consumed
    seenTransactions, \* the signatures recorded so far
    groupedData,      \* bucket name -> sequence of Transactions
    err,              \* ParseFile's error result ("nil" when none)
    emitLog,          \* history: <<message index, Transaction>> of every append
    catCalls,         \* history: <<message index, tx>> of every Categorize call
    pc,               \* "start", "loop", "returned" / "call", "done" / "write"
    fnIn,             \* function harness: the argument
    fnOut             \* function harness: the result

vars == <<file, input, senderFilter, startDateFilter, startDate, idx,
          seenTransactions, groupedData, err, emitLog, catCalls, pc, fnIn, fnOut>>

-----------------------------------------------------------------------------
\* Strings

\* The characters of an ASCII string literal, as a sequence.
Chars(s) == SubSeq([i \in 1..Len(s) |-> SubSeq(s, i, i)], 1, Len(s))

LowerLetters == Chars("abcdefghijklmnopqrstuvwxyz")
UpperLetters == Chars("ABCDEFGHIJKLMNOPQRSTUVWXYZ")
LowerSet == {LowerLetters[i] : i \in 1..26}
UpperSet == {UpperLetters[i] : i \in 1..26}
DigitSet == {"0", "1", "2", "3", "4", "5", "6", "7", "8", "9"}
\* regexp \s is [\t\n\f\r ]; TAB and LF stand for the control characters
SpaceSet == {" ", "TAB", "LF"}

\* the function that maps from[i] to to[i] for the first k letters
RECURSIVE LetterMap(_, _, _)
LetterMap(from, to, k) ==
    IF k = 0 THEN <<>> ELSE (from[k] :> to[k]) @@ LetterMap(from, to, k - 1)

UpperOf == LetterMap(LowerLetters, UpperLetters, 26)
LowerOf == LetterMap(UpperLetters, LowerLetters, 26)

ToUpperCh(c) == IF c \in LowerSet THEN UpperOf[c] ELSE c
ToLowerCh(c) == IF c \in UpperSet THEN LowerOf[c] ELSE c

\* strings.ToUpper / strings.ToLower
ToUpper(s) == SubSeq([i \in 1..Len(s) |-> ToUpperCh(s[i])], 1, Len(s))
ToLower(s) == SubSeq([i \in 1..Len(s) |-> ToLowerCh(s[i])], 1, Len(s))

\* s[from:] with a 0-based byte offset, as Go slices
SliceFrom(s, from) == SubSeq(s, from + 1, Len(s))

\* strings.TrimSpace
TrimSpace(s) ==
    LET keep == {i \in 1..Len(s) : s[i] \notin SpaceSet}
    IN  IF keep = {} THEN <<>>
        ELSE LET lo == CHOOSE i \in keep : \A j \in keep : i <= j
                 hi == CHOOSE i \in keep : \A j \in keep : i >= j
             IN  SubSeq(s, lo, hi)

\* kw occurs in s at (1-based) position i
OccursAt(s, kw, i) ==
    /\ i + Len(kw) - 1 <= Len(s)
    /\ \A j \in 1..Len(kw) : s[i + j - 1] = kw[j]

\* strings.Contains
StrContains(s, kw) == \E i \in 1..(Len(s) - Len(kw) + 1) : OccursAt(s, kw, i)

\* strings.HasPrefix
HasPrefix(s, p) == Len(p) <= Len(s) /\ OccursAt(s, p, 1)

\* a short variable declaration, name := value, with the code after it as Body
With(value, Body(_)) == Body(value)

\* strings.ReplaceAll(s, ",", "")
RECURSIVE RemoveCommas(_)
RemoveCommas(s) ==
    IF s = <<>> THEN <<>>
    ELSE IF Head(s) = "," THEN RemoveCommas(Tail(s))
    ELSE <<Head(s)>> \o RemoveCommas(Tail(s))

\* utils.Contains: text contains any of the keywords
Contains(text, keywords) == \E k \in 1..Len(keywords) : StrContains(text, keywords[k])

-----------------------------------------------------------------------------
\* Regular expressions (package regexp): a backtracking matcher with the
\* leftmost-first semantics of Go's FindStringSubmatch.  A pattern is a tree
\* of nodes; MatchHere matches a stack of nodes against s from position i,
\* trying alternatives in the order the syntax prefers them.

Lit(s) == [t |-> "lit", s |-> s]               \* literal text
Set(cs) == [t |-> "set", cs |-> cs]            \* one character of a class
AnyChar == [t |-> "any"]                       \* .  (any character but newline)
Alt(xs) == [t |-> "alt", xs |-> xs]            \* x1|x2|...
Cat(xs) == [t |-> "cat", xs |-> xs]            \* x1 x2 ...
Star(x) == [t |-> "star", x |-> x, greedy |-> TRUE]      \* x*
LazyStar(x) == [t |-> "star", x |-> x, greedy |-> FALSE] \* x*?
Plus(x) == Cat(<<x, Star(x)>>)                 \* x+
Opt(x) == Alt(<<x, Cat(<<>>)>>)                \* x?
Grp(k, x) == [t |-> "grp", k |-> k, x |-> x]   \* capturing group number k
EndText == [t |-> "eot"]                       \* $ (no multi-line flag)

Digit == Set(DigitSet)             \* \d
Space == Set(SpaceSet)             \* \s
Alpha == Set(LowerSet \cup UpperSet) \* [A-Za-z]

MaxGroups == 4
NoCaps == [k \in 1..MaxGroups |-> <<0, 0>>]
NoMatch == [ok |-> FALSE, end |-> 0, caps |-> NoCaps]

SameCh(a, b, fold) == IF fold THEN ToLowerCh(a) = ToLowerCh(b) ELSE a = b

InClass(c, cs, fold) ==
    \/ c \in cs
    \/ fold /\ (ToLowerCh(c) \in cs \/ ToUpperCh(c) \in cs)

LitAt(s, lit, i, fold) ==
    /\ i + Len(lit) - 1 <= Len(s)
    /\ \A j \in 1..Len(lit) : SameCh(s[i + j - 1], lit[j], fold)

MinOf(S) == CHOOSE x \in S : \A y \in S : x <= y
MaxOf(S) == CHOOSE x \in S : \A y \in S : x >= y

\* does the one-character node x (a class or .) accept character c
Accepts(x, c, fold) ==
    IF x.t = "set" THEN InClass(c, x.cs, fold) ELSE c # "LF"

\* a repetition x* from position i can end at i .. RunEnd: RunEnd is the
\* first position from i on whose character x does not accept
RunEnd(x, s, i, fold) ==
    LET bad == {j \in i..Len(s) : ~Accepts(x, s[j], fold)}
    IN  IF bad = {} THEN Len(s) + 1 ELSE MinOf(bad)

RECURSIVE MatchHere(_, _, _, _, _)
MatchHere(stack, s, i, caps, fold) ==
    IF stack = <<>> THEN [ok |-> TRUE, end |-> i, caps |-> caps]
    ELSE
      LET h == Head(stack)
          rest == Tail(stack)
      IN  CASE h.t = "lit" ->
                 IF LitAt(s, h.s, i, fold)
                 THEN MatchHere(rest, s, i + Len(h.s), caps, fold)
                 ELSE NoMatch
            [] h.t \in {"set", "any"} ->
                 IF i <= Len(s) /\ Accepts(h, s[i], fold)
                 THEN MatchHere(rest, s, i + 1, caps, fold)
                 ELSE NoMatch
            [] h.t = "alt" ->
                 IF h.xs = <<>> THEN NoMatch
                 ELSE LET r == MatchHere(<<Head(h.xs)>> \o rest, s, i, caps, fold)
                      IN  IF r.ok THEN r
                          ELSE MatchHere(<<Alt(Tail(h.xs))>> \o rest, s, i, caps, fold)
            [] h.t = "cat" ->
                 MatchHere(h.xs \o rest, s, i, caps, fold)
            [] h.t = "star" ->
                 \* x is a one-character node: the repetition may stop at any
                 \* position i .. RunEnd; rs[k] is the match of the rest when
                 \* it stops after k - 1 characters.  Greedy prefers the
                 \* longest run that lets the rest match, lazy the shortest.
                 LET n == RunEnd(h.x, s, i, fold) - i + 1
                     rs == SubSeq([k \in 1..n |->
                                     MatchHere(rest, s, i + k - 1, caps, fold)], 1, n)
                     oks == {k \in 1..n : rs[k].ok}
                 IN  IF oks = {} THEN NoMatch
                     ELSE rs[IF h.greedy THEN MaxOf(oks) ELSE MinOf(oks)]
            [] h.t = "grp" ->
                 MatchHere(<<h.x, [t |-> "end", k |-> h.k, from |-> i]>> \o rest,
                           s, i, caps, fold)
            [] h.t = "end" ->
                 MatchHere(rest, s, i, [caps EXCEPT ![h.k] = <<h.from, i>>], fold)
            [] h.t = "eot" ->
                 IF i = Len(s) + 1 THEN MatchHere(rest, s, i, caps, fold)
                 ELSE NoMatch

\* the submatch slice: whole match, then the text of each of the n groups
\* ("" for a group that took no part in the match)
Submatches(s, from, r, n) ==
    <<SubSeq(s, from, r.end - 1)>> \o
    SubSeq([k \in 1..n |-> IF r.caps[k][1] = 0 THEN <<>>
                           ELSE SubSeq(s, r.caps[k][1], r.caps[k][2] - 1)], 1, n)

\* the start positions from i on at which re matches
MatchStarts(re, fold, s, i) ==
    {j \in i..(Len(s) + 1) : MatchHere(<<re>>, s, j, NoCaps, fold).ok}

\* regexp.FindStringSubmatch for a pattern re with n capturing groups;
\* fold is the (?i) flag.  The leftmost match wins; no match is the empty
\* (nil) slice.
FindStringSubmatch(re, n, fold, s) ==
    LET starts == MatchStarts(re, fold, s, 1)
    IN  IF starts = {} THEN <<>>
        ELSE LET from == MinOf(starts)
             IN  Submatches(s, from, MatchHere(<<re>>, s, from, NoCaps, fold), n)

-----------------------------------------------------------------------------
\* internal/models: categories and transaction types

CatFood == "Food & Drink"
CatShopping == "Shopping"
CatHousing == "Housing"
CatTransport == "Transportation"
CatVehicle == "Vehicle"
CatLife == "Life & Entertainment"
CatComms == "Communication, PC"
CatFinancial == "Financial expenses"
CatIncome == "Income"
CatGeneral == "General"

TypeExpense == "Expense"
TypeIncome == "Income"

-----------------------------------------------------------------------------
\* internal/utils

\* the mapping table of NormalizeCurrency, as <<key, code>> pairs
CurrencyMapping == <<
    <<Chars("LE"), Chars("EGP")>>,
    <<Chars("L.E"), Chars("EGP")>>,
    <<Chars("L.E."), Chars("EGP")>>,
    <<Chars("EGP"), Chars("EGP")>>,
    <<<<"JEEM">> \o Chars(".") \o <<"MEEM">>, Chars("EGP")>>,
    <<<<"JEEM", "MEEM">>, Chars("EGP")>>,
    <<<<"JEEM", "NOON", "YEH", "HEH">>, Chars("EGP")>>,
    <<Chars("USD"), Chars("USD")>>,
    <<Chars("EUR"), Chars("EUR")>>,
    <<Chars("GBP"), Chars("GBP")>>,
    <<Chars("TRY"), Chars("TRY")>>,
    <<Chars("JPY"), Chars("JPY")>> >>

\* NormalizeCurrency: "" is EGP; otherwise trim, upper-case, look up, and
\* pass an unmapped token through upper-cased.
NormalizeCurrency(currStr) ==
    IF currStr = <<>> THEN Chars("EGP")
    ELSE LET cleanCurr == ToUpper(TrimSpace(currStr))
             hit == {k \in 1..Len(CurrencyMapping) : CurrencyMapping[k][1] = cleanCurr}
         IN  IF hit # {} THEN CurrencyMapping[CHOOSE k \in hit : TRUE][2]
             ELSE cleanCurr

\* the ordered processor prefixes of CleanPayeeName
Prefixes == <<
    Chars("PAYMOB-"), Chars("PAYMOB "), Chars("PAYMOBS "), Chars("GEIDEA "),
    Chars("GEIDEAE "), Chars("FAWRY "), Chars("FAWRYPF "), Chars("MY FAWRY"),
    Chars("Fawry "), Chars("FawryPF "), Chars("AFS-"), Chars("AFS "),
    Chars("POS "), Chars("NGOV_UNI "), Chars("BEE "), Chars("KASHIER ") >>

\* Variant of the prefix loop without the break: after a prefix is cut off
\* the loop goes on with the prefixes that follow it in the list.
RECURSIVE StripPrefixEvery(_, _)
StripPrefixEvery(clean, k) ==
    IF k > Len(Prefixes) THEN clean
    ELSE IF HasPrefix(ToUpper(clean), ToUpper(Prefixes[k]))
         THEN StripPrefixEvery(TrimSpace(SliceFrom(clean, Len(Prefixes[k]))), k + 1)
         ELSE StripPrefixEvery(clean, k + 1)

\* the prefix loop of CleanPayeeName from prefix number k on: the first
\* prefix that matches (case-insensitively) is cut off, the rest is trimmed,
\* and the loop breaks.
RECURSIVE StripPrefix(_, _)
StripPrefix(clean, k) ==
    IF k > Len(Prefixes) THEN clean
    ELSE IF HasPrefix(ToUpper(clean), ToUpper(Prefixes[k]))
         THEN TrimSpace(SliceFrom(clean, Len(Prefixes[k])))
         ELSE StripPrefix(clean, k + 1)

\* digitsPattern: \s*\d+$
DigitsPattern == Cat(<<Star(Space), Plus(Digit), EndText>>)

\* ReplaceAllString(s, "") for a pattern whose matches are never empty:
\* every leftmost non-overlapping match from position i on is deleted.
RECURSIVE DeleteMatchesFrom(_, _, _)
DeleteMatchesFrom(re, s, i) ==
    LET starts == MatchStarts(re, FALSE, s, i)
    IN  IF starts = {} THEN SubSeq(s, i, Len(s))
        ELSE LET from == MinOf(starts)
                 r == MatchHere(<<re>>, s, from, NoCaps, FALSE)
             IN  SubSeq(s, i, from - 1) \o DeleteMatchesFrom(re, s, r.end)

\* Variant of CleanPayeeName that leaves the trailing digits in place
CleanPayeeNameKeepDigits(payeeRaw) ==
    IF payeeRaw = <<>> THEN <<>>
    ELSE TrimSpace(StripPrefix(payeeRaw, 1))

\* CleanPayeeName: strip one processor prefix and a trailing run of digits
CleanPayeeName(payeeRaw) ==
    IF payeeRaw = <<>> THEN <<>>
    ELSE LET clean == StripPrefix(payeeRaw, 1)
         IN  TrimSpace(DeleteMatchesFrom(DigitsPattern, clean, 1))

-----------------------------------------------------------------------------
\* internal/categorizer

financialTransferKeywords == <<
    Chars("credit card payment"), Chars("sadaad"), Chars("cib repayment") >>

shoppingKeywords == <<
    Chars("amazon"), Chars("noon"), Chars("jumia"), Chars("souq"),
    Chars("shopping"), Chars("zara"), Chars("h&m"), Chars("lc waikiki"),
    Chars("defacto"), Chars("american eagle"), Chars("lachica"),
    Chars("ravin"), Chars("el salama"), Chars("stitch"), Chars("clothes"),
    Chars("fashion"), Chars("shoes"), Chars("concrete"), Chars("town team"),
    Chars("activ"), Chars("naga"), Chars("rich for cloth"), Chars("pronto"),
    Chars("scarpe"), Chars("scarape"), Chars("tie house"),
    Chars("rose paris"), Chars("b tech"), Chars("b.tech"),
    Chars("trade line"), Chars("2b"), Chars("best buy"),
    Chars("dubai phone"), Chars("mobile shop"), Chars("el araby"),
    Chars("fresh electric"), Chars("tornado") >>

furnitureKeywords == <<
    Chars("ikea"), Chars("homzmart"), Chars("furniture"), Chars("jotun"),
    Chars("ahfad") >>

foodKeywords == <<
    Chars("mcdonalds"), Chars("kfc"), Chars("pizza"), Chars("burger"),
    Chars("buffalo"), Chars("primos"), Chars("spectra"), Chars("desoky"),
    Chars("sandwich"), Chars("elmenus"), Chars("talabat"),
    Chars("breadfast"), Chars("roosters"), Chars("hardees"),
    Chars("manchow"), Chars("willys"), Chars("dhad"), Chars("el dahan"),
    Chars("sanabel"), Chars("fookotcharia"), Chars("krispy"), Chars("cafe"),
    Chars("costa"), Chars("starbucks"), Chars("cilantro"), Chars("tbsp"),
    Chars("espresso"), Chars("beano"), Chars("cinnabon"), Chars("dunkin"),
    Chars("caribou"), Chars("house of cocoa"), Chars("sale sucre"),
    Chars("dar el bon"), Chars("karak"), Chars("potasta"), Chars("b labn"),
    Chars("b.labn"), Chars("carrefour"), Chars("fathalla"), Chars("market"),
    Chars("seoudi"), Chars("gomla"), Chars("bim"), Chars("kazyon"),
    Chars("hyper"), Chars("ramadan hamada"), Chars("saood"), Chars("metro"),
    Chars("kheir zaman"), Chars("ragab"), Chars("abu auf"), Chars("kashier"),
    Chars("elkhalil"), Chars("aswak"), Chars("fresh food"),
    Chars("sun mall"), Chars("grapes") >>

transportKeywords == <<
    Chars("uber"), Chars("didi"), Chars("careem"), Chars("indriver"),
    Chars("transport"), Chars("super jet"), Chars("railways"),
    Chars("go bus"), Chars("swvl"), Chars("pegasus"), Chars("fly"),
    Chars("airline"), Chars("booking"), Chars("flight") >>

vehicleKeywords == <<
    Chars("mobil"), Chars("chillout"), Chars("gas station"), Chars("total"),
    Chars("ola"), Chars("master gas"), Chars("adnoc"), Chars("wataniya"),
    Chars("fuel"), Chars("car service"), Chars("tire"), Chars("fit & fix") >>

housingKeywords == <<
    Chars("sahl"), Chars("electricity"), Chars("water"), Chars("bill"),
    Chars("national gas"), Chars("natgas"), Chars("town gas"),
    Chars("petrotrade"), Chars("taqa"), Chars("north cairo") >>

commsKeywords == <<
    Chars("vodafone"), Chars("orange"), Chars("etisalat"), Chars("we "),
    Chars("telecom"), Chars("top up"), Chars("landline"), Chars("we-fv"),
    Chars("internet"), Chars("fbb"), Chars("adsl"), Chars("google"),
    Chars("microsoft"), Chars("adobe"), Chars("apple"), Chars("icloud"),
    Chars("storage"), Chars("host"), Chars("domain"), Chars("xbox"),
    Chars("playstation"), Chars("steam"), Chars("games"), Chars("mullvad"),
    Chars("linkedin") >>

lifeKeywords == <<
    Chars("netflix"), Chars("spotify"), Chars("osn"), Chars("shahid"),
    Chars("youtube"), Chars("watch it"), Chars("yango"), Chars("vox"),
    Chars("cinema"), Chars("renessance"), Chars("ticket"), Chars("tazkarti"),
    Chars("kindle"), Chars("audible"), Chars("books"), Chars("diwan"),
    Chars("pharmacy"), Chars("dr."), Chars("hospital"), Chars("medical"),
    Chars("ezaby"), Chars("elezzaby"), Chars("seif"), Chars("rushdy"),
    Chars("andalusia"), Chars("yosra"), Chars("hany"), Chars("tay") >>

financialKeywords == <<
    Chars("atm"), Chars("withdrawal"), Chars("s7b"),
    <<"SEEN", "HAH", "BEH">>, Chars("cash"), Chars("fawry"),
    Chars("my fawry"), Chars("fawrypay") >>

\* Categorizer.Categorize: first matching rule wins
\* Variant of Categorize that tests the food keywords before the shopping ones
CategorizeFoodFirst(payee, note, amount) ==
    With(ToLower(CleanPayeeName(payee) \o Chars(" ") \o note), LAMBDA text :
        IF amount > 0 THEN CatIncome
        ELSE IF Contains(text, financialTransferKeywords) THEN CatFinancial
        ELSE IF Contains(text, foodKeywords) THEN CatFood
        ELSE IF Contains(text, shoppingKeywords) THEN CatShopping
        ELSE IF Contains(text, furnitureKeywords) THEN CatHousing
        ELSE IF Contains(text, transportKeywords) THEN CatTransport
        ELSE IF Contains(text, vehicleKeywords) THEN CatVehicle
        ELSE IF Contains(text, housingKeywords) THEN CatHousing
        ELSE IF Contains(text, commsKeywords) THEN CatComms
        ELSE IF Contains(text, lifeKeywords) THEN CatLife
        ELSE IF Contains(text, financialKeywords) THEN CatFinancial
        ELSE CatGeneral)

Categorize(payee, note, amount) ==
    With(ToLower(CleanPayeeName(payee) \o Chars(" ") \o note), LAMBDA text :
        IF amount > 0 THEN CatIncome
        ELSE IF Contains(text, financialTransferKeywords) THEN CatFinancial
        ELSE IF Contains(text, shoppingKeywords) THEN CatShopping
        ELSE IF Contains(text, furnitureKeywords) THEN CatHousing
        ELSE IF Contains(text, foodKeywords) THEN CatFood
        ELSE IF Contains(text, transportKeywords) THEN CatTransport
        ELSE IF Contains(text, vehicleKeywords) THEN CatVehicle
        ELSE IF Contains(text, housingKeywords) THEN CatHousing
        ELSE IF Contains(text, commsKeywords) THEN CatComms
        ELSE IF Contains(text, lifeKeywords) THEN CatLife
        ELSE IF Contains(text, financialKeywords) THEN CatFinancial
        ELSE CatGeneral)

-----------------------------------------------------------------------------
\* strconv

DigitVal(c) == CHOOSE n \in 0..9 : Chars("0123456789")[n + 1] = c

\* value of a string of decimal digits ("" is 0)
RECURSIVE DecVal(_)
DecVal(s) ==
    IF s = <<>> THEN 0
    ELSE DecVal(SubSeq(s, 1, Len(s) - 1)) * 10 + DigitVal(s[Len(s)])

\* strconv.ParseFloat(s, 64), in cents, on the plain decimal numerals the
\* patterns can hand to it: digits with at most one "." and at most two
\* fractional digits.  A syntax error (no digit at all, a second ".", any
\* other character) leaves the result 0; the callers drop the error.
ParseFloat(s) ==
    LET dots == {i \in 1..Len(s) : s[i] = "."}
        digits == {i \in 1..Len(s) : s[i] \in DigitSet}
    IN  IF digits = {} \/ Cardinality(dots) > 1
           \/ Cardinality(dots) + Cardinality(digits) # Len(s)
        THEN 0
        ELSE IF dots = {} THEN DecVal(s) * 100
        ELSE LET d == CHOOSE i \in dots : TRUE
                 frac == SubSeq(s, d + 1, Len(s))
             IN  DecVal(SubSeq(s, 1, d - 1)) * 100
                 + (IF Len(frac) = 1 THEN DecVal(frac) * 10
                    ELSE DecVal(SubSeq(frac, 1, 2)))

\* Variant of the amount parser that leaves the grouping commas in
ParseAmountWithCommas(m) == ParseFloat(m)

\* the patterns' amount capture with its grouping commas removed, parsed
ParseAmount(m) == ParseFloat(RemoveCommas(m))

-----------------------------------------------------------------------------
\* internal/parser: the patterns

\* ([A-Za-z]{3}|L\.E\.?|<jeem>\.<meem>|<jeem noon yeh heh>|<jeem meem>)
CurrencyAlt == Alt(<<
    Cat(<<Alpha, Alpha, Alpha>>),
    Cat(<<Lit(Chars("L.E")), Opt(Lit(Chars(".")))>>),
    Lit(<<"JEEM">> \o Chars(".") \o <<"MEEM">>),
    Lit(<<"JEEM", "NOON", "YEH", "HEH">>),
    Lit(<<"JEEM", "MEEM">>) >>)

\* [\d,]+
DigitsCommas == Plus(Set(DigitSet \cup {","}))

\* ([\d,]+\.\d{2}) as group k
AmountGrp(k) == Grp(k, Cat(<<DigitsCommas, Lit(Chars(".")), Digit, Digit>>))

\* (?i)(?:credit card|ending with|card|<beh tatweel>)\s*[#*]*\s*(\d{4})
ccPattern == Cat(<<
    Alt(<<Lit(Chars("credit card")), Lit(Chars("ending with")),
          Lit(Chars("card")), Lit(<<"BEH", "TATWEEL">>)>>),
    Star(Space), Star(Set({"#", "*"})), Star(Space),
    Grp(1, Cat(<<Digit, Digit, Digit, Digit>>)) >>)

\* (?i)charged for\s*(CUR)?\s*(AMT)\s*at\s*(.*?)(?:\s+on|\s+at|\. Available)
ccChargePattern == Cat(<<
    Lit(Chars("charged for")), Star(Space), Opt(Grp(1, CurrencyAlt)),
    Star(Space), AmountGrp(2), Star(Space), Lit(Chars("at")), Star(Space),
    Grp(3, LazyStar(AnyChar)),
    Alt(<<Cat(<<Plus(Space), Lit(Chars("on"))>>),
          Cat(<<Plus(Space), Lit(Chars("at"))>>),
          Lit(Chars(". Available"))>>) >>)

\* (?i)(?:refunded|red|rd|<reh dal>)\s*(CUR)?\s*(AMT)
ccRefundPattern == Cat(<<
    Alt(<<Lit(Chars("refunded")), Lit(Chars("red")), Lit(Chars("rd")),
          Lit(<<"REH", "DAL">>)>>),
    Star(Space), Opt(Grp(1, CurrencyAlt)), Star(Space), AmountGrp(2) >>)

\* <mablagh>\s*(AMT)
ccRepaymentPattern == Cat(<<Lit(<<"MEEM", "BEH", "LAM", "GHAIN">>), Star(Space), AmountGrp(1)>>)

\* <khasm>\s*(CUR)?\s*(AMT)\s*<min>.*?<ind>\s*(.*?)(\s+<fi>|$)
patternAr == Cat(<<
    Lit(<<"KHAH", "SAD", "MEEM">>), Star(Space), Opt(Grp(1, CurrencyAlt)),
    Star(Space), AmountGrp(2), Star(Space), Lit(<<"MEEM", "NOON">>),
    LazyStar(AnyChar), Lit(<<"AIN", "NOON", "DAL">>), Star(Space),
    Grp(3, LazyStar(AnyChar)),
    Grp(4, Alt(<<Cat(<<Plus(Space), Lit(<<"FEH", "YEH">>)>>), EndText>>)) >>)

\* (?i)charged for\s*(CUR)?\s*(AMT)\s*at\s*(.*?)(?:\s+on|\s+at)
patternEn == Cat(<<
    Lit(Chars("charged for")), Star(Space), Opt(Grp(1, CurrencyAlt)),
    Star(Space), AmountGrp(2), Star(Space), Lit(Chars("at")), Star(Space),
    Grp(3, LazyStar(AnyChar)),
    Alt(<<Cat(<<Plus(Space), Lit(Chars("on"))>>),
          Cat(<<Plus(Space), Lit(Chars("at"))>>)>>) >>)

\* <sahb>\s*(?:<mablagh>)?\s*(CUR)?\s*(AMT)
patternWith == Cat(<<
    Lit(<<"SEEN", "HAH", "BEH">>), Star(Space), Opt(Lit(<<"MEEM", "BEH", "LAM", "GHAIN">>)),
    Star(Space), Opt(Grp(1, CurrencyAlt)), Star(Space), AmountGrp(2) >>)

\* (?i)(?:amount|for)\s*(CUR)?\s*(AMT)
debitAmountPattern == Cat(<<
    Alt(<<Lit(Chars("amount")), Lit(Chars("for"))>>),
    Star(Space), Opt(Grp(1, CurrencyAlt)), Star(Space), AmountGrp(2) >>)

\* to\s+(.*?)\s+with reference
payeeToPattern == Cat(<<
    Lit(Chars("to")), Plus(Space), Grp(1, LazyStar(AnyChar)),
    Plus(Space), Lit(Chars("with reference")) >>)

\* (?i)credited with IPN Inward for\s*(CUR)?\s*(AMT)
patternIPN == Cat(<<
    Lit(Chars("credited with IPN Inward for")), Star(Space),
    Opt(Grp(1, CurrencyAlt)), Star(Space), AmountGrp(2) >>)

\* <tahweel mablagh>\s*(CUR)?(AMT).*?<jihat al-amal>
patternSal == Cat(<<
    Lit(<<"TEH", "HAH", "WAW", "YEH", "LAM">> \o Chars(" ") \o <<"MEEM", "BEH", "LAM", "GHAIN">>),
    Star(Space), Opt(Grp(1, CurrencyAlt)), AmountGrp(2),
    LazyStar(AnyChar),
    Lit(<<"JEEM", "HEH", "TEH_MARBUTA">> \o Chars(" ") \o <<"ALEF", "LAM", "AIN", "MEEM", "LAM">>) >>)

\* from\s+(.*?)\s+with reference
payeeFromPattern == Cat(<<
    Lit(Chars("from")), Plus(Space), Grp(1, LazyStar(AnyChar)),
    Plus(Space), Lit(Chars("with reference")) >>)

\* <mablagh>\s*(?:(CUR)\s*)?([\d,]+)(?:\s*(CUR))?
bmTransferPattern == Cat(<<
    Lit(<<"MEEM", "BEH", "LAM", "GHAIN">>), Star(Space),
    Opt(Cat(<<Grp(1, CurrencyAlt), Star(Space)>>)),
    Grp(2, DigitsCommas),
    Opt(Cat(<<Star(Space), Grp(3, CurrencyAlt)>>)) >>)

\* (?:<mablagh>|amount)\s*(CUR)?\s*(AMT)
bmPurchasePattern == Cat(<<
    Alt(<<Lit(<<"MEEM", "BEH", "LAM", "GHAIN">>), Lit(Chars("amount"))>>),
    Star(Space), Opt(Grp(1, CurrencyAlt)), Star(Space), AmountGrp(2) >>)

\* BM (.*?) (?:<yawm>|on)
bmTailPattern == Cat(<<
    Lit(Chars("BM ")), Grp(1, LazyStar(AnyChar)), Lit(Chars(" ")),
    Alt(<<Lit(<<"YEH", "WAW", "MEEM">>), Lit(Chars("on"))>>) >>)

\* the Arabic keywords parseCIBCreditCard, parseCIBDebit and
\* parseCIBCurrentAccount look for with strings.Contains
kwCIB == [
    repaid |-> <<"TEH", "MEEM">> \o Chars(" ") \o <<"SEEN", "DAL", "ALEF", "DAL">>,
    refund |-> <<"REH", "DAL">>,
    deduct |-> <<"KHAH", "SAD", "MEEM">>,
    withdraw |-> <<"SEEN", "HAH", "BEH">>,
    transferred |-> <<"TEH", "MEEM">> \o Chars(" ") \o <<"TEH", "HAH", "WAW", "YEH", "LAM">>,
    transferAmount |-> <<"TEH", "HAH", "WAW", "YEH", "LAM">> \o Chars(" ")
                       \o <<"MEEM", "BEH", "LAM", "GHAIN">> ]

\* the Arabic keywords parseBanqueMisrMessage and parseTransfer look for
kwBM == [
    transferred |-> <<"TEH", "MEEM">> \o Chars(" ") \o <<"TEH", "HAH", "WAW", "YEH", "LAM">>
                    \o Chars(" ") \o <<"MEEM", "BEH", "LAM", "GHAIN">>,
    added |-> <<"TEH", "MEEM">> \o Chars(" ") \o <<"ALEF", "DAD", "ALEF", "FEH", "TEH_MARBUTA">>
              \o Chars(" ") \o <<"MEEM", "BEH", "LAM", "GHAIN">>,
    deducted |-> <<"TEH", "MEEM">> \o Chars(" ") \o <<"ALEF", "LAM", "KHAH", "SAD", "MEEM">>,
    fromAccount |-> <<"MEEM", "NOON">> \o Chars(" ") \o <<"HAH", "SEEN", "ALEF", "BEH">>,
    toAccount |-> <<"ALEF", "LAM", "ALEF_MAKSURA">> \o Chars(" ")
                  \o <<"HAH", "SEEN", "ALEF", "BEH">>,
    login |-> <<"TEH", "SEEN", "JEEM", "YEH", "LAM">> \o Chars(" ")
              \o <<"ALEF", "LAM", "DAL", "KHAH", "WAW", "LAM">> ]

-----------------------------------------------------------------------------
\* internal/parser: the extractors.  Each takes the Transaction built so far
\* and the body and gives the Transaction as the Go function leaves it.

\* match[k] of a Go submatch slice (0-based there, 1-based here)
Sub(match, k) == match[k + 1]

\* parseCIBCreditCard: charge or refund (else-if chain), then the repayment
\* test, which is a separate if and runs on every credit-card body.
parseCIBCreditCard(tx, body) ==
    With(IF StrContains(body, Chars("charged for"))
            \/ StrContains(body, Chars("purchasing transaction"))
         THEN With(FindStringSubmatch(ccChargePattern, 3, TRUE, body), LAMBDA match :
                  IF Len(match) > 3
                  THEN [tx EXCEPT !.Currency = NormalizeCurrency(Sub(match, 1)),
                                  !.Amount = -ParseAmount(Sub(match, 2)),
                                  !.Payee = CleanPayeeName(TrimSpace(Sub(match, 3)))]
                  ELSE tx)
         ELSE IF StrContains(body, Chars("refunded"))
                 \/ StrContains(body, Chars("rad"))
                 \/ StrContains(body, kwCIB.refund)
         THEN IF ~StrContains(body, kwCIB.repaid)
              THEN With(FindStringSubmatch(ccRefundPattern, 2, TRUE, body), LAMBDA match :
                       IF Len(match) > 2
                       THEN [tx EXCEPT !.Type = TypeIncome,
                                       !.Currency = NormalizeCurrency(Sub(match, 1)),
                                       !.Amount = ParseAmount(Sub(match, 2)),
                                       !.Payee = Chars("Refund")]
                       ELSE [tx EXCEPT !.Type = TypeIncome])
              ELSE tx
         ELSE tx,
         LAMBDA kind :
             IF StrContains(body, kwCIB.repaid)
                \/ (StrContains(body, Chars("payment")) /\ StrContains(body, Chars("received")))
             THEN With(FindStringSubmatch(ccRepaymentPattern, 1, FALSE, body), LAMBDA match :
                      IF Len(match) > 1
                      THEN [kind EXCEPT !.Type = TypeIncome,
                                        !.Payee = Chars("CIB Repayment"),
                                        !.Amount = ParseAmount(Sub(match, 1))]
                      ELSE [kind EXCEPT !.Type = TypeIncome,
                                        !.Payee = Chars("CIB Repayment")])
             ELSE kind)

\* parseCIBCurrentAccount: account 2373, debit kinds first, then credit kinds
parseCIBCurrentAccount(tx, body) ==
    IF StrContains(body, Chars("debited"))
       \/ StrContains(body, Chars("charged with"))
       \/ StrContains(body, kwCIB.transferred)
    THEN With(FindStringSubmatch(debitAmountPattern, 2, TRUE, body), LAMBDA match :
             IF Len(match) > 2
             THEN With([tx EXCEPT !.Currency = NormalizeCurrency(Sub(match, 1)),
                                  !.Amount = -ParseAmount(Sub(match, 2))], LAMBDA t :
                      IF StrContains(body, Chars("transfer to another account"))
                      THEN [t EXCEPT !.Payee = Chars("Transfer to Account / CC"),
                                     !.Category = CatFinancial]
                      ELSE With(FindStringSubmatch(payeeToPattern, 1, FALSE, body),
                                LAMBDA payeeMatch :
                                    IF Len(payeeMatch) > 1
                                    THEN [t EXCEPT !.Payee = TrimSpace(Sub(payeeMatch, 1))]
                                    ELSE [t EXCEPT !.Payee = Chars("Transfer Out")]))
             ELSE tx)
    ELSE IF StrContains(body, Chars("credited"))
            \/ StrContains(body, kwCIB.transferAmount)
            \/ StrContains(body, Chars("add"))
    THEN With(FindStringSubmatch(patternIPN, 2, TRUE, body), LAMBDA matchIPN :
         With(FindStringSubmatch(patternSal, 2, FALSE, body), LAMBDA matchSal :
             IF Len(matchIPN) > 2
             THEN With(FindStringSubmatch(payeeFromPattern, 1, FALSE, body),
                       LAMBDA payeeMatch :
                           [tx EXCEPT
                              !.Type = TypeIncome,
                              !.Currency = NormalizeCurrency(Sub(matchIPN, 1)),
                              !.Amount = ParseAmount(Sub(matchIPN, 2)),
                              !.Payee = IF Len(payeeMatch) > 1
                                        THEN TrimSpace(Sub(payeeMatch, 1))
                                        ELSE Chars("Transfer In")])
             ELSE IF Len(matchSal) > 2
             THEN [tx EXCEPT !.Type = TypeIncome,
                             !.Currency = NormalizeCurrency(Sub(matchSal, 1)),
                             !.Amount = ParseAmount(Sub(matchSal, 2)),
                             !.Payee = Chars("Salary / Work")]
             ELSE [tx EXCEPT !.Type = TypeIncome]))
    ELSE tx

\* parseCIBDebit: debit card 7759 charges and withdrawals, else account 2373
parseCIBDebit(tx0, body) ==
    With([tx0 EXCEPT !.TargetGroup = Chars("CIB_Current_Debit")], LAMBDA tx :
    IF StrContains(body, Chars("7759"))
       /\ (\/ StrContains(body, Chars("charged for"))
           \/ StrContains(body, kwCIB.deduct)
           \/ StrContains(body, Chars("withdrawal"))
           \/ StrContains(body, kwCIB.withdraw))
    THEN With(FindStringSubmatch(patternAr, 4, FALSE, body), LAMBDA matchAr :
         With(FindStringSubmatch(patternEn, 3, TRUE, body), LAMBDA matchEn :
         With(FindStringSubmatch(patternWith, 2, FALSE, body), LAMBDA matchWith :
             IF Len(matchAr) > 3
             THEN [tx EXCEPT !.Currency = NormalizeCurrency(Sub(matchAr, 1)),
                             !.Amount = -ParseAmount(Sub(matchAr, 2)),
                             !.Payee = CleanPayeeName(TrimSpace(Sub(matchAr, 3)))]
             ELSE IF Len(matchEn) > 3
             THEN [tx EXCEPT !.Currency = NormalizeCurrency(Sub(matchEn, 1)),
                             !.Amount = -ParseAmount(Sub(matchEn, 2)),
                             !.Payee = CleanPayeeName(TrimSpace(Sub(matchEn, 3)))]
             ELSE IF Len(matchWith) > 2
             THEN [tx EXCEPT !.Currency = NormalizeCurrency(Sub(matchWith, 1)),
                             !.Amount = -ParseAmount(Sub(matchWith, 2)),
                             !.Payee = Chars("ATM Withdrawal")]
             ELSE tx)))
    ELSE IF StrContains(body, Chars("2373"))
    THEN parseCIBCurrentAccount(tx, body)
    ELSE tx)

\* parseCIBMessage: the card number decides credit card or debit/account
parseCIBMessage(tx, body) ==
    With(FindStringSubmatch(ccPattern, 1, TRUE, body), LAMBDA ccMatch :
        LET cardDigits == IF Len(ccMatch) > 1 THEN Sub(ccMatch, 1) ELSE Chars("Unknown")
            isCreditCard == /\ Len(ccMatch) > 1
                            /\ cardDigits # Chars("7759")
                            /\ cardDigits # Chars("2373")
        IN  IF isCreditCard
            THEN parseCIBCreditCard(
                     [tx EXCEPT !.TargetGroup = Chars("CIB_Credit_Card_") \o cardDigits],
                     body)
            ELSE IF StrContains(body, Chars("7759")) \/ StrContains(body, Chars("2373"))
            THEN parseCIBDebit(tx, body)
            ELSE tx)

\* skipWords of parseBanqueMisrMessage
skipWords == <<Chars("OTP"), Chars("password"), kwBM.login, Chars("code")>>

\* parseTransfer (Banque Misr)
parseTransfer(tx, body) ==
    With(FindStringSubmatch(bmTransferPattern, 3, FALSE, body), LAMBDA match :
        IF Len(match) > 2
        THEN LET val == ParseAmount(Sub(match, 2))
                 detectedCurr == IF Sub(match, 1) = <<>> THEN Sub(match, 3)
                                 ELSE Sub(match, 1)
             IN  IF StrContains(body, kwBM.fromAccount)
                 THEN [tx EXCEPT !.Currency = NormalizeCurrency(detectedCurr),
                                 !.Amount = -val, !.Payee = Chars("Transfer Out")]
                 ELSE IF StrContains(body, kwBM.toAccount)
                 THEN [tx EXCEPT !.Currency = NormalizeCurrency(detectedCurr),
                                 !.Type = TypeIncome, !.Amount = val,
                                 !.Payee = Chars("Transfer In")]
                 ELSE [tx EXCEPT !.Currency = NormalizeCurrency(detectedCurr)]
        ELSE tx)

\* parsePurchase (Banque Misr)
parsePurchase(tx, body) ==
    With(FindStringSubmatch(bmPurchasePattern, 2, FALSE, body), LAMBDA match :
        IF Len(match) > 2
        THEN With(FindStringSubmatch(bmTailPattern, 1, FALSE, body), LAMBDA tailMatch :
                 [tx EXCEPT !.Currency = NormalizeCurrency(Sub(match, 1)),
                            !.Amount = -ParseAmount(Sub(match, 2)),
                            !.Payee = IF Len(tailMatch) > 1
                                      THEN TrimSpace(Sub(tailMatch, 1))
                                      ELSE Chars("Card Purchase")])
        ELSE tx)

\* parseBanqueMisrMessage: OTP and login messages clear the target group
parseBanqueMisrMessage(tx0, body) ==
    With([tx0 EXCEPT !.TargetGroup = Chars("Banque_Misr")], LAMBDA tx :
    IF Contains(body, skipWords)
    THEN [tx EXCEPT !.TargetGroup = <<>>]
    ELSE IF StrContains(body, kwBM.transferred) \/ StrContains(body, kwBM.added)
    THEN parseTransfer(tx, body)
    ELSE IF StrContains(body, kwBM.deducted) \/ StrContains(body, Chars("transaction"))
    THEN parsePurchase(tx, body)
    ELSE tx)

-----------------------------------------------------------------------------
\* strconv.ParseInt and package time, as ParseFile uses them

\* the longest decimal string ParseInt is given here (int64 has up to 19 digits)
MaxDateDigits == 14

\* strconv.ParseInt(s, 10, 64): an optional sign, then one or more digits
ParseIntOk(s) ==
    LET body == IF s # <<>> /\ s[1] \in {"+", "-"} THEN Tail(s) ELSE s
    IN  /\ body # <<>>
        /\ Len(body) <= MaxDateDigits
        /\ \A i \in 1..Len(body) : body[i] \in DigitSet

\* a string of decimal digits read as milliseconds: the remainder and the
\* quotient of its value by the 86400000 milliseconds of a day
RECURSIVE RemMs(_)
RemMs(s) ==
    IF s = <<>> THEN 0
    ELSE (RemMs(SubSeq(s, 1, Len(s) - 1)) * 10 + DigitVal(s[Len(s)])) % 86400000

RECURSIVE QuoDays(_)
QuoDays(s) ==
    IF s = <<>> THEN 0
    ELSE QuoDays(SubSeq(s, 1, Len(s) - 1)) * 10
         + (RemMs(SubSeq(s, 1, Len(s) - 1)) * 10 + DigitVal(s[Len(s)])) \div 86400000

IsLeap(y) == (y % 4 = 0 /\ y % 100 # 0) \/ y % 400 = 0

DaysIn(y, m) ==
    IF m = 2 THEN (IF IsLeap(y) THEN 29 ELSE 28)
    ELSE IF m \in {4, 6, 9, 11} THEN 30 ELSE 31

\* days from 1970-01-01 to the civil date y-m-d (proleptic Gregorian)
DaysFromCivil(y0, m, d) ==
    LET y == IF m <= 2 THEN y0 - 1 ELSE y0
        era == (IF y >= 0 THEN y ELSE y - 399) \div 400
        yoe == y - era * 400
        mp == IF m > 2 THEN m - 3 ELSE m + 9
        doy == (153 * mp + 2) \div 5 + d - 1
        doe == yoe * 365 + yoe \div 4 - yoe \div 100 + doy
    IN  era * 146097 + doe - 719468

\* the civil date <<y, m, d>> of a day number
CivilFromDays(days) ==
    LET z == days + 719468
        era == z \div 146097
        doe == z - era * 146097
        yoe == (doe - doe \div 1460 + doe \div 36524 - doe \div 146096) \div 365
        doy == doe - (365 * yoe + yoe \div 4 - yoe \div 100)
        mp == (5 * doy + 2) \div 153
        d == doy - (153 * mp + 2) \div 5 + 1
        m == IF mp < 10 THEN mp + 3 ELSE mp - 9
        y == yoe + era * 400 + (IF m <= 2 THEN 1 ELSE 0)
    IN  <<y, m, d>>

\* n in decimal, zero-padded to w digits
RECURSIVE Pad(_, _)
Pad(n, w) ==
    IF w = 0 THEN <<>>
    ELSE Pad(n \div 10, w - 1) \o <<Chars("0123456789")[(n % 10) + 1]>>

\* time.Unix(sec, 0).Format("2006-01-02 15:04:05"), the zone taken as UTC
FormatDate(t) ==
    LET rem == t.sec
        ymd == CivilFromDays(t.day)
    IN  Pad(ymd[1], 4) \o Chars("-") \o Pad(ymd[2], 2) \o Chars("-")
        \o Pad(ymd[3], 2) \o Chars(" ") \o Pad(rem \div 3600, 2) \o Chars(":")
        \o Pad((rem % 3600) \div 60, 2) \o Chars(":") \o Pad(rem % 60, 2)

AllDigits(s) == \A i \in 1..Len(s) : s[i] \in DigitSet

\* Variant of the date parser that also reads the layout day/month/year
ParseDateAnyLayout(s) ==
    IF /\ Len(s) = 10
       /\ s[3] = "/" /\ s[6] = "/"
       /\ AllDigits(SubSeq(s, 1, 2)) /\ AllDigits(SubSeq(s, 4, 5))
       /\ AllDigits(SubSeq(s, 7, 10))
    THEN [ok |-> TRUE,
          days |-> DaysFromCivil(DecVal(SubSeq(s, 7, 10)), DecVal(SubSeq(s, 4, 5)),
                                 DecVal(SubSeq(s, 1, 2)))]
    ELSE IF Len(s) = 10 /\ s[5] = "-" /\ s[8] = "-"
    THEN [ok |-> TRUE,
          days |-> DaysFromCivil(DecVal(SubSeq(s, 1, 4)), DecVal(SubSeq(s, 6, 7)),
                                 DecVal(SubSeq(s, 9, 10)))]
    ELSE [ok |-> FALSE, days |-> 0]

\* time.Parse("2006-01-02", s): ok and the day number of s (midnight UTC)
ParseDate(s) ==
    IF /\ Len(s) = 10
       /\ s[5] = "-" /\ s[8] = "-"
       /\ AllDigits(SubSeq(s, 1, 4)) /\ AllDigits(SubSeq(s, 6, 7))
       /\ AllDigits(SubSeq(s, 9, 10))
    THEN LET y == DecVal(SubSeq(s, 1, 4))
             m == DecVal(SubSeq(s, 6, 7))
             d == DecVal(SubSeq(s, 9, 10))
         IN  IF m \in 1..12 /\ d >= 1 /\ d <= DaysIn(y, m)
             THEN [ok |-> TRUE, days |-> DaysFromCivil(y, m, d)]
             ELSE [ok |-> FALSE, days |-> 0]
    ELSE [ok |-> FALSE, days |-> 0]

\* the day number of the zero time.Time (0001-01-01), for IsZero
ZeroDay == DaysFromCivil(1, 1, 1)

-----------------------------------------------------------------------------
\* Parser.ParseFile

\* Variant of the duplicate test that never finds a duplicate
IsDuplicateNever(seen, sig) == FALSE

\* Variant of the duplicate test that takes every message after the first
\* recorded one for a duplicate
IsDuplicateOnceSeen(seen, sig) == seen # {}

\* seenTransactions[msgSignature]
IsDuplicate(seen, sig) == sig \in seen

\* Variant of the sender test that keeps every sender beginning with the filter
DroppedBySenderPrefix(filter, address) ==
    filter # <<>> /\ ~(Len(address) >= Len(filter) /\ SubSeq(address, 1, Len(filter)) = filter)

\* senderFilter != "" && sms.Address != senderFilter
DroppedBySender(filter, address) == filter # <<>> /\ address # filter

\* fmt.Sprintf("%s|%s|%s", sms.Date, sms.Address, sms.Body)
MsgSignature(sms) == sms.Date \o Chars("|") \o sms.Address \o Chars("|") \o sms.Body

\* the Transaction literal ParseFile starts every message with
NewTransaction(dateStr, body) ==
    [Date |-> dateStr, Payee |-> <<>>, Amount |-> 0, Currency |-> Chars("EGP"),
     Type |-> TypeExpense, Category |-> CatGeneral, Note |-> body,
     TargetGroup |-> <<>>]

\* Variant of the switch that goes by the beginning of the sender
ExtractByPrefix(tx, sms) ==
    IF HasPrefix(sms.Address, Chars("CIB")) THEN parseCIBMessage(tx, sms.Body)
    ELSE IF HasPrefix(sms.Address, Chars("Banque Misr"))
    THEN parseBanqueMisrMessage(tx, sms.Body)
    ELSE tx

\* the switch on sms.Address
Extract(tx, sms) ==
    IF sms.Address = Chars("CIB") THEN parseCIBMessage(tx, sms.Body)
    ELSE IF sms.Address = Chars("Banque Misr") THEN parseBanqueMisrMessage(tx, sms.Body)
    ELSE tx

\* Variant of the categorization guard that does not look at the Category
NeedsCategoryAnyCategory(tx) ==
    tx.TargetGroup # <<>> /\ tx.Amount # 0

\* "Apply categorization": is Categorize called for the extracted tx
NeedsCategory(tx) ==
    tx.TargetGroup # <<>> /\ tx.Amount # 0 /\ tx.Category = CatGeneral

ApplyCategory(tx) ==
    IF NeedsCategory(tx)
    THEN [tx EXCEPT !.Category = Categorize(tx.Payee, tx.Note, tx.Amount)]
    ELSE tx

\* Variant of the append guard that does not look at the Amount
EmittedAnyAmount(tx) == tx.TargetGroup # <<>>

\* "Add category to note and append to group": is the tx appended
Emitted(tx) == tx.TargetGroup # <<>> /\ tx.Amount # 0

\* Variant of the note rewriting that puts the category in front twice
WithNoteTwice(tx) ==
    IF tx.Category # CatGeneral
    THEN [tx EXCEPT !.Note = Chars("[") \o Chars(tx.Category) \o Chars("] ")
                             \o Chars("[") \o Chars(tx.Category) \o Chars("] ") \o tx.Note]
    ELSE tx

\* fmt.Sprintf("[%s] %s", tx.Category, tx.Note) unless the category is General
WithNote(tx) ==
    IF tx.Category # CatGeneral
    THEN [tx EXCEPT !.Note = Chars("[") \o Chars(tx.Category) \o Chars("] ") \o tx.Note]
    ELSE tx

\* Variant of the append that starts the bucket anew on every Transaction
AppendToFresh(data, tx) ==
    (tx.TargetGroup :> <<tx>>) @@ data

\* Variant of the append that puts the Transaction at the head of its bucket
AppendToFront(data, tx) ==
    LET g == tx.TargetGroup
        d == IF g \in DOMAIN data THEN data ELSE (g :> <<>>) @@ data
    IN  [d EXCEPT ![g] = <<tx>> \o d[g]]

\* Variant of the append that files every Transaction of a card under the
\* debit bucket
AppendToDebit(data, tx) ==
    LET g == IF HasPrefix(tx.TargetGroup, Chars("CIB_")) THEN Chars("CIB_Current_Debit")
             ELSE tx.TargetGroup
        d == IF g \in DOMAIN data THEN data ELSE (g :> <<>>) @@ data
    IN  [d EXCEPT ![g] = Append(d[g], tx)]

\* groupedData after appending tx to its group, created if missing
AppendTo(data, tx) ==
    LET g == tx.TargetGroup
        d == IF g \in DOMAIN data THEN data ELSE (g :> <<>>) @@ data
    IN  [d EXCEPT ![g] = Append(d[g], tx)]

-----------------------------------------------------------------------------
\* The inputs of the model

Sms(address, body, date) == [Address |-> address, Body |-> body, Date |-> date]

\* a credit-card purchase on card 1234
bodyCharge ==
    Chars("Your credit card ending with 1234 was charged for EGP 100.00 at FAWRY Carrefour 12 on 01/01")

\* a credit-card purchase on card 5678
bodyChargeOther ==
    Chars("card 5678 charged for 20.00 at Uber on 02/01")

\* an Arabic charge on the debit card 7759: "tamma khasm 150.00 min bitaqa 7759 ind Carrefour fi 01/01"
bodyDebitAr ==
    <<"TEH", "MEEM">> \o Chars(" ") \o <<"KHAH", "SAD", "MEEM">> \o
    Chars(" 150.00 ") \o <<"MEEM", "NOON">> \o Chars(" ") \o
    <<"BEH", "TAH", "ALEF", "QAF", "TEH_MARBUTA">> \o Chars(" 7759 ") \o
    <<"AIN", "NOON", "DAL">> \o Chars(" Carrefour ") \o <<"FEH", "YEH">> \o
    Chars(" 01/01")

\* an Arabic charge in dollars on the debit card 7759:
\* "khasm USD 1,250.75 min 7759 ind Zara"
bodyDebitArUsd ==
    <<"KHAH", "SAD", "MEEM">> \o Chars(" USD 1,250.75 ") \o <<"MEEM", "NOON">> \o
    Chars(" 7759 ") \o <<"AIN", "NOON", "DAL">> \o Chars(" Zara")

\* an incoming transfer of a whole amount to the CIB account 2373
bodyIpnWhole ==
    Chars("account 2373 credited with IPN Inward for 500")

\* a credit-card purchase at a merchant behind two payment processors
bodyTwoProcessors ==
    Chars("card 1234 charged for EGP 10.00 at PAYMOB-FAWRY Carrefour on 01/01")

\* a current-account transfer to another account, with a shopping keyword
bodyTransferCC ==
    Chars("Your account 2373 was debited with amount EGP 100.00 transfer to another account at amazon")

\* a Banque Misr incoming transfer: "tamma idafat mablagh 500 ila hisab 2"
bodyTransferIn ==
    <<"TEH", "MEEM">> \o Chars(" ") \o
    <<"ALEF", "DAD", "ALEF", "FEH", "TEH_MARBUTA">> \o Chars(" ") \o
    <<"MEEM", "BEH", "LAM", "GHAIN">> \o Chars(" 500 ") \o
    <<"ALEF", "LAM", "ALEF_MAKSURA">> \o Chars(" ") \o
    <<"HAH", "SEEN", "ALEF", "BEH">> \o Chars(" 2")

\* an OTP message with transfer text: "OTP 123456 tamma tahwil mablagh 500 min hisab 1"
bodyOtp ==
    Chars("OTP 123456 ") \o <<"TEH", "MEEM">> \o Chars(" ") \o
    <<"TEH", "HAH", "WAW", "YEH", "LAM">> \o Chars(" ") \o
    <<"MEEM", "BEH", "LAM", "GHAIN">> \o Chars(" 500 ") \o
    <<"MEEM", "NOON">> \o Chars(" ") \o <<"HAH", "SEEN", "ALEF", "BEH">> \o
    Chars(" 1")

\* a refund notice on card 9012 with no amount
bodyRefundMiss ==
    Chars("card 9012 refunded soon")

\* a purchase on card 5678 whose text starts with a reference and a bar
bodyBar ==
    Chars("ref|card 5678 charged for 20.00 at Uber on 02/01")

\* the messages a backup is made of; the last two differ in sender and body
\* and agree on the joined string "Date|Address|Body"
Inbox == <<
    Sms(Chars("CIB"), bodyCharge, Chars("86400000")),
    Sms(Chars("CIB"), bodyDebitAr, Chars("90000000")),
    Sms(Chars("CIB"), bodyTransferCC, Chars("86400000")),
    Sms(Chars("Banque Misr"), bodyTransferIn, Chars("86399000")),
    Sms(Chars("Banque Misr"), bodyOtp, Chars("90000000")),
    Sms(Chars("CIB"), bodyRefundMiss, Chars("90000000")),
    Sms(Chars("Other"), bodyCharge, Chars("86400000")),
    Sms(Chars("CIB"), bodyCharge, Chars("x")),
    Sms(Chars("CIB"), bodyChargeOther, Chars("86400000")),
    Sms(Chars("CIB|ref"), bodyChargeOther, Chars("86400000")),
    Sms(Chars("CIB"), bodyBar, Chars("86400000")) >>

InboxSet == {Inbox[k] : k \in 1..Len(Inbox)}

\* the longest backup
MaxMsgs == 3

\* all sequences over S of length at most n
RECURSIVE SeqsUpTo(_, _)
SeqsUpTo(S, n) ==
    IF n = 0 THEN {<<>>}
    ELSE LET shorter == SeqsUpTo(S, n - 1)
         IN  shorter \cup {Append(q, x) : q \in {r \in shorter : Len(r) = n - 1}, x \in S}

\* <<senderFilter, startDateFilter>> as the command line may give them
FilterChoices == {
    <<<<>>, <<>>>>,
    <<Chars("CIB"), <<>>>>,
    <<<<>>, Chars("1970-01-02")>>,
    <<<<>>, Chars("02/01/1970")>> }

\* message texts of every kind the extractors know, as <<sender, body>>
Templates == <<
    <<Chars("CIB"),
      Chars("Your credit card ending with 1234 was charged for EGP 100.00 at FAWRY Carrefour 12 on 01/01")>>,
    <<Chars("CIB"),
      Chars("Your credit card #5678 was charged for 1,250.75 at Zara at 10:00")>>,
    <<Chars("CIB"),
      Chars("card 1234 charged for USD 20.00 at PAYMOB-Uber. Available limit 5")>>,
    <<Chars("CIB"),
      Chars("card 1234 purchasing transaction of 100.00")>>,
    <<Chars("CIB"),
      Chars("card 1234 refunded EGP 55.50")>>,
    <<Chars("CIB"),
      <<"BEH", "TATWEEL">> \o Chars(" 4321 ") \o <<"REH", "DAL">> \o
      Chars(" ") \o <<"JEEM", "MEEM">> \o Chars(" 10.00")>>,
    <<Chars("CIB"),
      <<"BEH", "TATWEEL">> \o Chars(" 4321 ") \o <<"TEH", "MEEM">> \o
      Chars(" ") \o <<"SEEN", "DAL", "ALEF", "DAL">> \o Chars(" ") \o
      <<"MEEM", "BEH", "LAM", "GHAIN">> \o Chars(" 300.00")>>,
    <<Chars("CIB"),
      Chars("card 1234 payment of ") \o <<"MEEM", "BEH", "LAM", "GHAIN">> \o
      Chars(" 75.25 received")>>,
    <<Chars("CIB"),
      Chars("card 1234 payment received thanks")>>,
    <<Chars("CIB"),
      Chars("card 1234 charged for EGP 100.00 at Amazon on 01/01 payment received")>>,
    <<Chars("CIB"),
      <<"TEH", "MEEM">> \o Chars(" ") \o <<"KHAH", "SAD", "MEEM">> \o
      Chars(" 150.00 ") \o <<"MEEM", "NOON">> \o Chars(" ") \o
      <<"BEH", "TAH", "ALEF", "QAF", "TEH_MARBUTA">> \o Chars(" 7759 ") \o
      <<"AIN", "NOON", "DAL">> \o Chars(" Carrefour ") \o <<"FEH", "YEH">> \o
      Chars(" 01/01")>>,
    <<Chars("CIB"),
      <<"KHAH", "SAD", "MEEM">> \o Chars(" ") \o <<"JEEM">> \o Chars(".") \o
      <<"MEEM">> \o Chars(" 150.00 ") \o <<"MEEM", "NOON">> \o
      Chars(" 7759 ") \o <<"AIN", "NOON", "DAL">> \o Chars(" FAWRY Seoudi 77")>>,
    <<Chars("CIB"),
      Chars("card 7759 was charged for EGP 42.00 at Costa on 02/02")>>,
    <<Chars("CIB"),
      Chars("7759 ") \o <<"TEH", "MEEM">> \o Chars(" ") \o
      <<"SEEN", "HAH", "BEH">> \o Chars(" ") \o
      <<"MEEM", "BEH", "LAM", "GHAIN">> \o Chars(" 500.00 ") \o
      <<"MEEM", "NOON">> \o Chars(" ATM")>>,
    <<Chars("CIB"),
      Chars("7759 withdrawal ") \o <<"SEEN", "HAH", "BEH">> \o Chars(" ") \o
      <<"JEEM", "NOON", "YEH", "HEH">> \o Chars(" 1,000.00")>>,
    <<Chars("CIB"),
      Chars("Your account 2373 was debited with amount EGP 100.00 transfer to another account")>>,
    <<Chars("CIB"),
      Chars("account 2373 debited for 99.99 to Ahmed Ali with reference 55")>>,
    <<Chars("CIB"),
      Chars("account 2373 charged with amount 10.00")>>,
    <<Chars("CIB"),
      Chars("2373 ") \o <<"TEH", "MEEM">> \o Chars(" ") \o
      <<"TEH", "HAH", "WAW", "YEH", "LAM">> \o Chars(" for 12.00")>>,
    <<Chars("CIB"),
      Chars("account 2373 credited with IPN Inward for EGP 500.00 from Mona with reference 9")>>,
    <<Chars("CIB"),
      Chars("account 2373 credited with IPN Inward for 500.00")>>,
    <<Chars("CIB"),
      Chars("2373 ") \o <<"TEH", "HAH", "WAW", "YEH", "LAM">> \o
      Chars(" ") \o <<"MEEM", "BEH", "LAM", "GHAIN">> \o
      Chars(" 9,000.00 ") \o <<"MEEM", "NOON">> \o Chars(" ") \o
      <<"JEEM", "HEH", "TEH_MARBUTA">> \o Chars(" ") \o
      <<"ALEF", "LAM", "AIN", "MEEM", "LAM">>>>,
    <<Chars("CIB"),
      Chars("2373 ") \o <<"TEH", "HAH", "WAW", "YEH", "LAM">> \o
      Chars(" ") \o <<"MEEM", "BEH", "LAM", "GHAIN">> \o Chars(" ") \o
      <<"JEEM", "MEEM">> \o Chars("9,000.00 ") \o
      <<"JEEM", "HEH", "TEH_MARBUTA">> \o Chars(" ") \o
      <<"ALEF", "LAM", "AIN", "MEEM", "LAM">>>>,
    <<Chars("CIB"),
      Chars("2373 add something")>>,
    <<Chars("CIB"),
      Chars("Your OTP code for card 1234 charged for 5.00 at X on 1")>>,
    <<Chars("Banque Misr"),
      <<"TEH", "MEEM">> \o Chars(" ") \o
      <<"TEH", "HAH", "WAW", "YEH", "LAM">> \o Chars(" ") \o
      <<"MEEM", "BEH", "LAM", "GHAIN">> \o Chars(" 500 ") \o
      <<"JEEM", "NOON", "YEH", "HEH">> \o Chars(" ") \o <<"MEEM", "NOON">> \o
      Chars(" ") \o <<"HAH", "SEEN", "ALEF", "BEH">> \o Chars(" 1")>>,
    <<Chars("Banque Misr"),
      <<"TEH", "MEEM">> \o Chars(" ") \o
      <<"ALEF", "DAD", "ALEF", "FEH", "TEH_MARBUTA">> \o Chars(" ") \o
      <<"MEEM", "BEH", "LAM", "GHAIN">> \o Chars(" EGP 1,500 ") \o
      <<"ALEF", "LAM", "ALEF_MAKSURA">> \o Chars(" ") \o
      <<"HAH", "SEEN", "ALEF", "BEH">> \o Chars(" 2")>>,
    <<Chars("Banque Misr"),
      <<"TEH", "MEEM">> \o Chars(" ") \o
      <<"TEH", "HAH", "WAW", "YEH", "LAM">> \o Chars(" ") \o
      <<"MEEM", "BEH", "LAM", "GHAIN">> \o Chars(" 500.75 ") \o
      <<"ALEF", "LAM", "ALEF_MAKSURA">> \o Chars(" ") \o
      <<"HAH", "SEEN", "ALEF", "BEH">> \o Chars(" 2")>>,
    <<Chars("Banque Misr"),
      <<"TEH", "MEEM">> \o Chars(" ") \o
      <<"TEH", "HAH", "WAW", "YEH", "LAM">> \o Chars(" ") \o
      <<"MEEM", "BEH", "LAM", "GHAIN">> \o Chars(" 20 USD")>>,
    <<Chars("Banque Misr"),
      <<"TEH", "MEEM">> \o Chars(" ") \o
      <<"ALEF", "LAM", "KHAH", "SAD", "MEEM">> \o Chars(" ") \o
      <<"MEEM", "BEH", "LAM", "GHAIN">> \o Chars(" 35.00 BM Market on 01/01")>>,
    <<Chars("Banque Misr"),
      Chars("transaction amount EGP 70.10 BM Vodafone ") \o
      <<"YEH", "WAW", "MEEM">> \o Chars(" 5")>>,
    <<Chars("Banque Misr"),
      Chars("transaction amount 70.10")>>,
    <<Chars("Banque Misr"),
      Chars("OTP 123456 transaction amount 70.10")>>,
    <<Chars("Banque Misr"),
      <<"TEH", "MEEM">> \o Chars(" ") \o
      <<"TEH", "HAH", "WAW", "YEH", "LAM">> \o Chars(" ") \o
      <<"MEEM", "BEH", "LAM", "GHAIN">> \o Chars(" 500 ") \o
      <<"MEEM", "NOON">> \o Chars(" ") \o <<"HAH", "SEEN", "ALEF", "BEH">> \o
      Chars(" 1 code")>>,
    <<Chars("Other"),
      Chars("card 1234 charged for EGP 100.00 at Shop on 01/01")>>,
    <<Chars("CIB"), bodyDebitArUsd>>,
    <<Chars("CIB"), bodyIpnWhole>>,
    <<Chars("CIB"), bodyTwoProcessors>> >>

\* what a message may start with: nothing, or a phrase with one of the words
\* "OTP", "code", "password", "tasjil aldukhul"
Leads == {
    <<>>,
    Chars("OTP 1234: "),
    Chars("Your code: "),
    Chars("password "),
    <<"TEH", "SEEN", "JEEM", "YEH", "LAM">> \o Chars(" ") \o <<"ALEF", "LAM", "DAL", "KHAH", "WAW", "LAM">> \o Chars(" ") }

\* what a message may end with: nothing, or a repayment phrase
\* ("payment received", "tamma sadad")
Tails == {
    <<>>,
    Chars(" payment received"),
    Chars(" ") \o <<"TEH", "MEEM">> \o Chars(" ") \o <<"SEEN", "DAL", "ALEF", "DAL">> }

\* every lead, text and tail combined, sent on 1970-01-02
Catalog ==
    {Sms(Templates[k][1], l \o Templates[k][2] \o t, Chars("86400000")) :
        k \in 1..Len(Templates), l \in Leads, t \in Tails}


-----------------------------------------------------------------------------
\* Parser.ParseFile as a state machine

\* Variant of the initial buckets without the Banque Misr one
InitialGroupsDebitOnly ==
    Chars("CIB_Current_Debit") :> <<>>

\* the initial buckets
InitialGroups ==
    (Chars("CIB_Current_Debit") :> <<>>) @@ (Chars("Banque_Misr") :> <<>>)

NoStartDate == [set |-> FALSE, days |-> ZeroDay]

\* time.Unix(dateMs/1000, 0): the day number and the second of that day;
\* the division by 1000 truncates toward zero
UnixTime(date) ==
    LET digits == IF date[1] \in {"+", "-"} THEN Tail(date) ELSE date
        q == QuoDays(digits)
        r == RemMs(digits) \div 1000
    IN  IF date[1] # "-" \/ r = 0
        THEN [day |-> IF date[1] = "-" THEN -q ELSE q, sec |-> r]
        ELSE [day |-> -q - 1, sec |-> 86400 - r]

\* !startDate.IsZero() && dateObj.Before(startDate); startDate is a midnight
BeforeStart(t, start) ==
    start.set /\ start.days # ZeroDay /\ t.day < start.days

\* one loop body from the Transaction literal to the append: the extracted
\* transaction, whether Categorize is called, and the transaction as appended
Outcome(sms) ==
    With(Extract(NewTransaction(FormatDate(UnixTime(sms.Date)), sms.Body), sms),
         LAMBDA tx0 :
    With(ApplyCategory(tx0), LAMBDA tx1 :
        [extracted |-> tx0,
         categorized |-> NeedsCategory(tx0),
         emitted |-> Emitted(tx1),
         tx |-> IF Emitted(tx1) THEN WithNote(tx1) ELSE tx1]))

\* a credit-card purchase dated 0000-12-31 23:59:59, one second before the
\* zero time.Time
Oldest == Sms(Chars("CIB"), bodyCharge, Chars("-62135596801000"))

\* Outcome of every message of the Inbox and the Catalog, computed once
KnownOutcome ==
    [m \in {x \in InboxSet \cup Catalog \cup {Oldest} : ParseIntOk(x.Date)} |-> Outcome(m)]
    @@ <<>>

\* the loop body applied to a message (all inputs are Inbox or Catalog messages)
OutcomeOf(sms) == KnownOutcome[sms]

\* the state ParseFile is called in
InitWith(files, inputs, filters) ==
    /\ file \in files
    /\ input \in IF file = "ok" THEN inputs ELSE {<<>>}
    /\ \E f \in filters : senderFilter = f[1] /\ startDateFilter = f[2]
    /\ startDate = NoStartDate
    /\ idx = 0
    /\ seenTransactions = {}
    /\ groupedData = <<>>
    /\ err = "none"
    /\ emitLog = <<>>
    /\ catCalls = <<>>
    /\ pc = "start"
    /\ fnIn = <<>>
    /\ fnOut = <<>>

\* a backup of Inbox messages under any filters, or one Catalog message, or
\* a backup with the Oldest message read from the date 0001-01-01 on
Init ==
    \/ InitWith({"ok", "unreadable", "undecodable"},
                SeqsUpTo(InboxSet, MaxMsgs), FilterChoices)
    \/ InitWith({"ok"}, {<<m>> : m \in Catalog}, {<<<<>>, <<>>>>})
    \/ InitWith({"ok"}, SeqsUpTo({Oldest, Inbox[1]}, 2), {<<<<>>, Chars("0001-01-01")>>})

\* ParseFile up to the loop: read, decode, parse the start date, make the buckets
Open ==
    /\ pc = "start"
    /\ IF file = "unreadable"
       THEN /\ err' = "error reading file"
            /\ pc' = "returned"
            /\ UNCHANGED <<startDate, groupedData>>
       ELSE IF file = "undecodable"
       THEN /\ err' = "error parsing XML"
            /\ pc' = "returned"
            /\ UNCHANGED <<startDate, groupedData>>
       ELSE IF startDateFilter # <<>> /\ ~ParseDate(startDateFilter).ok
       THEN /\ err' = "invalid date format (use YYYY-MM-DD)"
            /\ pc' = "returned"
            /\ UNCHANGED <<startDate, groupedData>>
       ELSE /\ startDate' = IF startDateFilter # <<>>
                            THEN [set |-> TRUE, days |-> ParseDate(startDateFilter).days]
                            ELSE NoStartDate
            /\ groupedData' = InitialGroups
            /\ pc' = "loop"
            /\ UNCHANGED err
    /\ UNCHANGED <<file, input, senderFilter, startDateFilter, idx,
                   seenTransactions, emitLog, catCalls, fnIn, fnOut>>

\* Variant of the loop body that makes the bucket of a Transaction as soon as
\* its TargetGroup is set, before the test of the amount
ProcessMessageBucketFirst ==
    /\ pc = "loop"
    /\ idx < Len(input)
    /\ idx' = idx + 1
    /\ LET sms == input[idx + 1]
           sig == MsgSignature(sms)
       IN  IF DroppedBySender(senderFilter, sms.Address)
           THEN UNCHANGED <<seenTransactions, groupedData, emitLog, catCalls>>
           ELSE IF IsDuplicate(seenTransactions, sig)
           THEN UNCHANGED <<seenTransactions, groupedData, emitLog, catCalls>>
           ELSE /\ seenTransactions' = seenTransactions \cup {sig}
                /\ IF ~ParseIntOk(sms.Date)
                   THEN UNCHANGED <<groupedData, emitLog, catCalls>>
                   ELSE IF BeforeStart(UnixTime(sms.Date), startDate)
                   THEN UNCHANGED <<groupedData, emitLog, catCalls>>
                   ELSE With(OutcomeOf(sms), LAMBDA out :
                            /\ catCalls' = IF out.categorized
                                           THEN Append(catCalls, <<idx + 1, out.extracted>>)
                                           ELSE catCalls
                            /\ IF out.emitted
                               THEN /\ groupedData' = AppendTo(groupedData, out.tx)
                                    /\ emitLog' = Append(emitLog, <<idx + 1, out.tx>>)
                               ELSE /\ groupedData' =
                                           IF out.tx.TargetGroup = <<>> THEN groupedData
                                           ELSE groupedData @@ (out.tx.TargetGroup :> <<>>)
                                    /\ UNCHANGED emitLog)
    /\ UNCHANGED <<file, input, senderFilter, startDateFilter, startDate, err,
                   pc, fnIn, fnOut>>

\* one iteration of the loop over backup.SMS
ProcessMessage ==
    /\ pc = "loop"
    /\ idx < Len(input)
    /\ idx' = idx + 1
    /\ LET sms == input[idx + 1]
           sig == MsgSignature(sms)
       IN  IF DroppedBySender(senderFilter, sms.Address)
           THEN UNCHANGED <<seenTransactions, groupedData, emitLog, catCalls>>
           ELSE IF IsDuplicate(seenTransactions, sig)
           THEN UNCHANGED <<seenTransactions, groupedData, emitLog, catCalls>>
           ELSE /\ seenTransactions' = seenTransactions \cup {sig}
                /\ IF ~ParseIntOk(sms.Date)
                   THEN UNCHANGED <<groupedData, emitLog, catCalls>>
                   ELSE IF BeforeStart(UnixTime(sms.Date), startDate)
                   THEN UNCHANGED <<groupedData, emitLog, catCalls>>
                   ELSE With(OutcomeOf(sms), LAMBDA out :
                            /\ catCalls' = IF out.categorized
                                           THEN Append(catCalls, <<idx + 1, out.extracted>>)
                                           ELSE catCalls
                            /\ IF out.emitted
                               THEN /\ groupedData' = AppendTo(groupedData, out.tx)
                                    /\ emitLog' = Append(emitLog, <<idx + 1, out.tx>>)
                               ELSE UNCHANGED <<groupedData, emitLog>>)
    /\ UNCHANGED <<file, input, senderFilter, startDateFilter, startDate, err,
                   pc, fnIn, fnOut>>

\* Variant of the return that may leave the loop before its last message
ReturnAnyTime ==
    /\ pc = "loop"
    /\ pc' = "returned"
    /\ err' = "nil"
    /\ UNCHANGED <<file, input, senderFilter, startDateFilter, startDate, idx,
                   seenTransactions, groupedData, emitLog, catCalls, fnIn, fnOut>>

\* return groupedData, nil
Return ==
    /\ pc = "loop"
    /\ idx = Len(input)
    /\ pc' = "returned"
    /\ err' = "nil"
    /\ UNCHANGED <<file, input, senderFilter, startDateFilter, startDate, idx,
                   seenTransactions, groupedData, emitLog, catCalls, fnIn, fnOut>>

Next == Open \/ ProcessMessage \/ Return

Spec == Init /\ [][Next]_vars

\* ParseFile is one goroutine with no blocking call inside the loop: a call
\* that can take a step takes it
SpecFair == Spec /\ WF_vars(Next)

-----------------------------------------------------------------------------
\* The pure functions called on their own

\* the most pieces an argument is put together from
MaxParts == 3

\* the most words of a note
MaxWords == 2

RECURSIVE Concat(_)
Concat(parts) == IF parts = <<>> THEN <<>> ELSE Head(parts) \o Concat(Tail(parts))

\* every string made of at most n of the pieces
Joined(pieces, n) == {Concat(q) : q \in SeqsUpTo(pieces, n)}

CurrencyPieces == {
    Chars(" "), Chars("."), Chars("egp"), Chars("LE"), Chars("L.E"),
    Chars("usd"), Chars("x"), <<"JEEM", "MEEM">> }

PayeePieces == {
    Chars("PAYMOB "), Chars("FAWRY "), Chars("fawry "), Chars("MY FAWRY"),
    Chars("Carrefour"), Chars(" 1234"), Chars(" "), Chars("12") }

\* one word of every keyword group, and one of none
NoteWords == {
    Chars("sadaad "), Chars("amazon "), Chars("ikea "), Chars("kfc "),
    Chars("uber "), Chars("fuel "), Chars("bill "), Chars("vodafone "),
    Chars("netflix "), Chars("atm "), Chars("hello ") }

CategorizeArgs ==
    {[payee |-> p, note |-> n, amount |-> a] :
        p \in {<<>>, Chars("FAWRY Zara 12"), Chars("Shop")},
        n \in Joined(NoteWords, MaxWords),
        a \in {-10000, 0, 10000}}

\* the state a function is called in, with its argument
InitCall(args) ==
    /\ fnIn \in args
    /\ fnOut = <<>>
    /\ pc = "call"
    /\ file = "ok"
    /\ input = <<>>
    /\ senderFilter = <<>>
    /\ startDateFilter = <<>>
    /\ startDate = NoStartDate
    /\ idx = 0
    /\ seenTransactions = {}
    /\ groupedData = <<>>
    /\ err = "none"
    /\ emitLog = <<>>
    /\ catCalls = <<>>

Pipeline == <<file, input, senderFilter, startDateFilter, startDate, idx,
              seenTransactions, groupedData, err, emitLog, catCalls>>

\* fnOut lists the results of the calls made so far
CallNormalizeCurrency ==
    /\ pc = "call"
    /\ fnOut' = <<NormalizeCurrency(fnIn)>>
    /\ pc' = "done"
    /\ UNCHANGED <<fnIn, Pipeline>>

\* the function applied to its own result
RecallNormalizeCurrency ==
    /\ pc = "done"
    /\ fnOut' = Append(fnOut, NormalizeCurrency(fnOut[1]))
    /\ pc' = "redone"
    /\ UNCHANGED <<fnIn, Pipeline>>

NextCurrency == CallNormalizeCurrency \/ RecallNormalizeCurrency

SpecCurrency == InitCall(Joined(CurrencyPieces, MaxParts)) /\ [][NextCurrency]_vars

CallCleanPayeeName ==
    /\ pc = "call"
    /\ fnOut' = <<CleanPayeeName(fnIn)>>
    /\ pc' = "done"
    /\ UNCHANGED <<fnIn, Pipeline>>

SpecClean == InitCall(Joined(PayeePieces, MaxParts)) /\ [][CallCleanPayeeName]_vars

CallCategorize ==
    /\ pc = "call"
    /\ fnOut' = <<Categorize(fnIn.payee, fnIn.note, fnIn.amount)>>
    /\ pc' = "done"
    /\ UNCHANGED <<fnIn, Pipeline>>

SpecCategorize == InitCall(CategorizeArgs) /\ [][CallCategorize]_vars

-----------------------------------------------------------------------------
\* The single-file implementation (main.go), run beside Parser.ParseFile

\* cleanPayeeName of main.go: the prefix loop has no break, so after a prefix
\* is cut off the prefixes that follow it in the list are still tried
cleanPayeeName(payeeRaw) ==
    LET RECURSIVE loop(_, _)
        loop(clean, k) ==
            IF k > Len(Prefixes) THEN clean
            ELSE IF HasPrefix(ToUpper(clean), ToUpper(Prefixes[k]))
                 THEN loop(TrimSpace(SliceFrom(clean, Len(Prefixes[k]))), k + 1)
                 ELSE loop(clean, k + 1)
    IN  IF payeeRaw = <<>> THEN <<>>
        ELSE TrimSpace(DeleteMatchesFrom(DigitsPattern, loop(payeeRaw, 1), 1))

\* getCategory of main.go: the keyword lists and their order are those of
\* Categorizer.Categorize; the payee is cleaned by cleanPayeeName
getCategory(payee, note, amount) ==
    With(ToLower(cleanPayeeName(payee) \o Chars(" ") \o note), LAMBDA text :
        IF amount > 0 THEN CatIncome
        ELSE IF Contains(text, financialTransferKeywords) THEN CatFinancial
        ELSE IF Contains(text, shoppingKeywords) THEN CatShopping
        ELSE IF Contains(text, furnitureKeywords) THEN CatHousing
        ELSE IF Contains(text, foodKeywords) THEN CatFood
        ELSE IF Contains(text, transportKeywords) THEN CatTransport
        ELSE IF Contains(text, vehicleKeywords) THEN CatVehicle
        ELSE IF Contains(text, housingKeywords) THEN CatHousing
        ELSE IF Contains(text, commsKeywords) THEN CatComms
        ELSE IF Contains(text, lifeKeywords) THEN CatLife
        ELSE IF Contains(text, financialKeywords) THEN CatFinancial
        ELSE CatGeneral)

\* parseCIBMessage of main.go, one function: the credit-card part, the debit
\* card 7759 part, and the account 2373 part, whose statements are those of
\* parseCIBCurrentAccount
parseCIBMessageMain(tx0, body) ==
    With(FindStringSubmatch(ccPattern, 1, TRUE, body), LAMBDA ccMatch :
    LET cardDigits == IF Len(ccMatch) > 1 THEN Sub(ccMatch, 1) ELSE Chars("Unknown")
        isCreditCard == /\ Len(ccMatch) > 1
                        /\ cardDigits # Chars("7759")
                        /\ cardDigits # Chars("2373")
    IN  IF isCreditCard
        THEN With([tx0 EXCEPT !.TargetGroup = Chars("CIB_Credit_Card_") \o cardDigits],
                  LAMBDA tx :
             With(IF StrContains(body, Chars("charged for"))
                     \/ StrContains(body, Chars("purchasing transaction"))
                  THEN With(FindStringSubmatch(ccChargePattern, 3, TRUE, body), LAMBDA match :
                           IF Len(match) > 3
                           THEN [tx EXCEPT !.Currency = NormalizeCurrency(Sub(match, 1)),
                                           !.Amount = -ParseAmount(Sub(match, 2)),
                                           !.Payee = cleanPayeeName(TrimSpace(Sub(match, 3)))]
                           ELSE tx)
                  ELSE IF StrContains(body, Chars("refunded"))
                          \/ StrContains(body, Chars("rad"))
                          \/ StrContains(body, kwCIB.refund)
                  THEN IF ~StrContains(body, kwCIB.repaid)
                       THEN With(FindStringSubmatch(ccRefundPattern, 2, TRUE, body),
                                 LAMBDA match :
                                IF Len(match) > 2
                                THEN [tx EXCEPT !.Type = TypeIncome,
                                                !.Currency = NormalizeCurrency(Sub(match, 1)),
                                                !.Amount = ParseAmount(Sub(match, 2)),
                                                !.Payee = Chars("Refund")]
                                ELSE [tx EXCEPT !.Type = TypeIncome])
                       ELSE tx
                  ELSE tx,
                  LAMBDA kind :
                      IF StrContains(body, kwCIB.repaid)
                         \/ (StrContains(body, Chars("payment"))
                             /\ StrContains(body, Chars("received")))
                      THEN With(FindStringSubmatch(ccRepaymentPattern, 1, FALSE, body),
                                LAMBDA match :
                               IF Len(match) > 1
                               THEN [kind EXCEPT !.Type = TypeIncome,
                                                 !.Payee = Chars("CIB Repayment"),
                                                 !.Amount = ParseAmount(Sub(match, 1))]
                               ELSE [kind EXCEPT !.Type = TypeIncome,
                                                 !.Payee = Chars("CIB Repayment")])
                      ELSE kind))
        ELSE IF StrContains(body, Chars("7759")) \/ StrContains(body, Chars("2373"))
        THEN With([tx0 EXCEPT !.TargetGroup = Chars("CIB_Current_Debit")], LAMBDA tx :
             IF StrContains(body, Chars("7759"))
                /\ (\/ StrContains(body, Chars("charged for"))
                    \/ StrContains(body, kwCIB.deduct)
                    \/ StrContains(body, Chars("withdrawal"))
                    \/ StrContains(body, kwCIB.withdraw))
             THEN With(FindStringSubmatch(patternAr, 4, FALSE, body), LAMBDA matchAr :
                  With(FindStringSubmatch(patternEn, 3, TRUE, body), LAMBDA matchEn :
                  With(FindStringSubmatch(patternWith, 2, FALSE, body), LAMBDA matchWith :
                      IF Len(matchAr) > 3
                      THEN [tx EXCEPT !.Currency = NormalizeCurrency(Sub(matchAr, 1)),
                                      !.Amount = -ParseAmount(Sub(matchAr, 2)),
                                      !.Payee = cleanPayeeName(TrimSpace(Sub(matchAr, 3)))]
                      ELSE IF Len(matchEn) > 3
                      THEN [tx EXCEPT !.Currency = NormalizeCurrency(Sub(matchEn, 1)),
                                      !.Amount = -ParseAmount(Sub(matchEn, 2)),
                                      !.Payee = cleanPayeeName(TrimSpace(Sub(matchEn, 3)))]
                      ELSE IF Len(matchWith) > 2
                      THEN [tx EXCEPT !.Currency = NormalizeCurrency(Sub(matchWith, 1)),
                                      !.Amount = -ParseAmount(Sub(matchWith, 2)),
                                      !.Payee = Chars("ATM Withdrawal")]
                      ELSE tx)))
             ELSE IF StrContains(body, Chars("2373"))
             THEN parseCIBCurrentAccount(tx, body)
             ELSE tx)
        ELSE tx0)

\* the body of the loop of parseSMSBackup from the Transaction literal to the
\* append.  parseBanqueMisrMessage and normalizeCurrency of main.go have the
\* statements of their namesakes in the parser and utils packages.
mainOutcome(sms) ==
    With(NewTransaction(FormatDate(UnixTime(sms.Date)), sms.Body), LAMBDA lit :
    With(IF sms.Address = Chars("CIB") THEN parseCIBMessageMain(lit, sms.Body)
         ELSE IF sms.Address = Chars("Banque Misr")
         THEN parseBanqueMisrMessage(lit, sms.Body)
         ELSE lit,
         LAMBDA tx0 :
    With(IF tx0.TargetGroup # <<>> /\ tx0.Amount # 0 /\ tx0.Category = CatGeneral
         THEN [tx0 EXCEPT !.Category = getCategory(tx0.Payee, tx0.Note, tx0.Amount)]
         ELSE tx0,
         LAMBDA tx1 :
        [emitted |-> tx1.TargetGroup # <<>> /\ tx1.Amount # 0,
         tx |-> IF tx1.Category # CatGeneral
                THEN [tx1 EXCEPT !.Note = Chars("[") \o Chars(tx1.Category)
                                          \o Chars("] ") \o tx1.Note]
                ELSE tx1])))

\* a backup message with the text bodyTwoProcessors
TwoProcessors == Sms(Chars("CIB"), bodyTwoProcessors, Chars("86400000"))

\* mainOutcome of every message of the Inbox and the Catalog, computed once
KnownMainOutcome ==
    [m \in {x \in InboxSet \cup Catalog : ParseIntOk(x.Date)} |-> mainOutcome(m)]
    @@ <<>>

\* both implementations are handed the same file; parseSMSBackup has no
\* filters, and ParseFile is called with both of its filters empty.  fnIn
\* holds the locals of parseSMSBackup and fnOut its groupedData.
InitBoth ==
    /\ file \in {"ok", "unreadable", "undecodable"}
    /\ input \in IF file = "ok"
                 THEN SeqsUpTo(InboxSet \cup {TwoProcessors}, MaxMsgs)
                      \cup {<<m>> : m \in Catalog}
                 ELSE {<<>>}
    /\ senderFilter = <<>>
    /\ startDateFilter = <<>>
    /\ startDate = NoStartDate
    /\ idx = 0
    /\ seenTransactions = {}
    /\ groupedData = <<>>
    /\ err = "none"
    /\ emitLog = <<>>
    /\ catCalls = <<>>
    /\ pc = "start"
    /\ fnIn = [pc |-> "start", idx |-> 0, seenTransactions |-> {}, err |-> "none"]
    /\ fnOut = <<>>

\* parseSMSBackup up to the loop: read, decode, make the buckets
mainOpen ==
    /\ fnIn.pc = "start"
    /\ IF file = "unreadable"
       THEN /\ fnIn' = [fnIn EXCEPT !.pc = "returned", !.err = "error reading file"]
            /\ UNCHANGED fnOut
       ELSE IF file = "undecodable"
       THEN /\ fnIn' = [fnIn EXCEPT !.pc = "returned", !.err = "error parsing XML"]
            /\ UNCHANGED fnOut
       ELSE /\ fnIn' = [fnIn EXCEPT !.pc = "loop"]
            /\ fnOut' = InitialGroups
    /\ UNCHANGED <<Pipeline, pc>>

\* one iteration of the loop of parseSMSBackup
mainProcessMessage ==
    /\ fnIn.pc = "loop"
    /\ fnIn.idx < Len(input)
    /\ LET sms == input[fnIn.idx + 1]
           sig == MsgSignature(sms)
       IN  IF sig \in fnIn.seenTransactions
           THEN /\ fnIn' = [fnIn EXCEPT !.idx = @ + 1]
                /\ UNCHANGED fnOut
           ELSE /\ fnIn' = [fnIn EXCEPT !.idx = @ + 1,
                                        !.seenTransactions = @ \cup {sig}]
                /\ IF ~ParseIntOk(sms.Date)
                   THEN UNCHANGED fnOut
                   ELSE With(KnownMainOutcome[sms], LAMBDA out :
                            IF out.emitted
                            THEN fnOut' = AppendTo(fnOut, out.tx)
                            ELSE UNCHANGED fnOut)
    /\ UNCHANGED <<Pipeline, pc>>

\* return groupedData, nil
mainReturn ==
    /\ fnIn.pc = "loop"
    /\ fnIn.idx = Len(input)
    /\ fnIn' = [fnIn EXCEPT !.pc = "returned", !.err = "nil"]
    /\ UNCHANGED <<Pipeline, pc, fnOut>>

NextBoth ==
    \/ Open \/ ProcessMessage \/ Return
    \/ mainOpen \/ mainProcessMessage \/ mainReturn

SpecBoth == InitBoth /\ [][NextBoth]_vars

-----------------------------------------------------------------------------
\* internal/writer: Writer.Write, called with the map ParseFile returned

\* the most Transactions of a bucket handed to Write
MaxBucket == 3

\* the characters of a formatted date in byte order
DateBytes == Chars(" -0123456789:")

\* Go's < on two date strings: bytewise, a proper prefix is less
StrLess(a, b) ==
    \E k \in 1..Len(b) :
        /\ \A j \in 1..(k - 1) : j <= Len(a) /\ a[j] = b[j]
        /\ \/ k = Len(a) + 1
           \/ /\ k <= Len(a)
              /\ (CHOOSE m \in 1..Len(DateBytes) : DateBytes[m] = a[k])
                   < (CHOOSE m \in 1..Len(DateBytes) : DateBytes[m] = b[k])

\* sort.Slice(transactions, less) with less(i, j) = Date[i] < Date[j]: every
\* rearrangement in which no Transaction is less than the one before it.
\* sort.Slice does not fix the order of elements that compare equal.
SortSlice(s) ==
    {r \in {[i \in 1..Len(s) |-> s[p[i]]] : p \in Permutations(1..Len(s))} :
        \A i \in 1..(Len(s) - 1) : ~StrLess(r[i + 1].Date, r[i].Date)}

\* fmt.Sprintf("%.2f", tx.Amount) of an amount held in cents
FormatAmount(cents) ==
    LET abs == IF cents < 0 THEN -cents ELSE cents
        whole == abs \div 100
    IN  (IF cents < 0 THEN Chars("-") ELSE <<>>)
        \o (IF whole = 0 THEN Chars("0") ELSE Pad(whole, Len(ToString(whole))))
        \o Chars(".") \o Pad(abs % 100, 2)

\* the record writeCSVFile writes for a Transaction
CsvRecord(tx) ==
    <<tx.Date, tx.Payee, FormatAmount(tx.Amount), tx.Currency, Chars(tx.Type),
      Chars(tx.Category), tx.Note>>

\* the file writeCSVFile leaves when it got through the first n Transactions
CsvFile(transactions, n, complete) ==
    [rows |-> [i \in 1..n |-> CsvRecord(transactions[i])], complete |-> complete]

\* a Transaction as ParseFile files it under group
WriteTx(group, sec, payee) ==
    [NewTransaction(FormatDate([day |-> sec \div 86400, sec |-> sec % 86400]), payee) EXCEPT
        !.Payee = payee, !.Amount = -15000, !.TargetGroup = group]

\* the buckets a group can hold: up to MaxBucket Transactions of two seconds
Buckets(group) ==
    SeqsUpTo({WriteTx(group, sec, payee) :
                 sec \in {86400, 86401}, payee \in {Chars("A"), Chars("B")}},
             MaxBucket)

\* the maps Write is called with: the two initial buckets, and a credit-card
\* bucket that exists only when it holds a Transaction
WriteInputs ==
    {((Chars("CIB_Current_Debit") :> d) @@ (Chars("Banque_Misr") :> b)) @@ c :
        d \in Buckets(Chars("CIB_Current_Debit")),
        b \in {<<>>, <<WriteTx(Chars("Banque_Misr"), 86400, Chars("A"))>>},
        c \in {<<>>} \cup
              {Chars("CIB_Credit_Card_1234") :> x :
                  x \in {<<WriteTx(Chars("CIB_Credit_Card_1234"), 86400, Chars("A"))>>,
                         <<WriteTx(Chars("CIB_Credit_Card_1234"), 86401, Chars("B")),
                           WriteTx(Chars("CIB_Credit_Card_1234"), 86400, Chars("A"))>>}}}

\* Write is called with a map; fnIn keeps the map as it was passed
InitWrite ==
    /\ groupedData \in WriteInputs
    /\ fnIn = groupedData
    /\ fnOut = <<>>
    /\ pc = "write"
    /\ file = "ok"
    /\ input = <<>>
    /\ senderFilter = <<>>
    /\ startDateFilter = <<>>
    /\ startDate = NoStartDate
    /\ idx = 0
    /\ seenTransactions = {}
    /\ err = "none"
    /\ emitLog = <<>>
    /\ catCalls = <<>>

\* Writer.Write: the loop ranges over the map in no fixed order; an empty
\* bucket is passed over, any other is sorted in place and written to its
\* file; the first failure of writeCSVFile ends the loop with its error.
\* ranged are the groups the loop got through, bad the one it failed on.
\* fnOut maps each group whose file was created to that file.
Write ==
    /\ pc = "write"
    /\ \E ranged \in SUBSET DOMAIN groupedData :
       \E bad \in IF ranged = DOMAIN groupedData THEN {<<>>}
                  ELSE {g \in DOMAIN groupedData \ ranged : Len(groupedData[g]) > 0} :
       \E created \in IF bad = <<>> THEN {FALSE} ELSE BOOLEAN :
       \E n \in IF created THEN 0..Len(groupedData[bad]) ELSE {0} :
       \E sorted \in With([g \in DOMAIN groupedData |->
                              IF g \in ranged \cup {bad} /\ Len(groupedData[g]) > 0
                              THEN SortSlice(groupedData[g])
                              ELSE {groupedData[g]}] @@ <<>>,
                          LAMBDA sorts :
                              {f \in [DOMAIN groupedData ->
                                         UNION {sorts[g] : g \in DOMAIN groupedData}] :
                                  \A g \in DOMAIN groupedData : f[g] \in sorts[g]}) :
           /\ groupedData' = sorted
           /\ fnOut' = [g \in {h \in ranged : Len(sorted[h]) > 0}
                               \cup (IF created THEN {bad} ELSE {}) |->
                           IF g \in ranged
                           THEN CsvFile(sorted[g], Len(sorted[g]), TRUE)
                           ELSE CsvFile(sorted[g], n, FALSE)]
           /\ err' = IF bad = <<>> THEN "nil"
                     ELSE IF created THEN "error writing"
                     ELSE "error creating"
    /\ pc' = "returned"
    /\ UNCHANGED <<file, input, senderFilter, startDateFilter, startDate, idx,
                   seenTransactions, emitLog, catCalls, fnIn>>

SpecWrite == InitWrite /\ [][Write]_vars

-----------------------------------------------------------------------------
\* Properties of ParseFile (specification Spec)

\* the message an appended Transaction comes from
SourceOf(e) == input[e[1]]

Emits == {emitLog[k] : k \in 1..Len(emitLog)}

KnownSenders == {Chars("CIB"), Chars("Banque Misr")}

\* message i gets past the sender filter
PassesSender(i) == senderFilter = <<>> \/ input[i].Address = senderFilter

\* no earlier message has the sender, body and timestamp of message i
FirstOccurrence(i) == \A j \in 1..(i - 1) : input[j] # input[i]

\* message i is not skipped by the loop and its extraction is complete
Transactional(i) ==
    /\ PassesSender(i)
    /\ \A j \in 1..(i - 1) :
          PassesSender(j) => MsgSignature(input[j]) # MsgSignature(input[i])
    /\ ParseIntOk(input[i].Date)
    /\ ~BeforeStart(UnixTime(input[i].Date), startDate)
    /\ OutcomeOf(input[i]).extracted.TargetGroup # <<>>
    /\ OutcomeOf(input[i]).extracted.Amount # 0

\* C1: every Transaction appended to a bucket has Type = Income exactly when
\* its Amount is >= 0 (no Income with a negative amount, no Expense with a
\* positive one).
C1_SignAgreesWithType ==
    \A e \in Emits : (e[2].Type = TypeIncome) <=> (e[2].Amount >= 0)

C3_NoEmptyGroupNoZeroAmount ==
    \A g \in DOMAIN groupedData :
        \A k \in 1..Len(groupedData[g]) :
            groupedData[g][k].TargetGroup # <<>> /\ groupedData[g][k].Amount # 0

\* a returned run that processed a message whose extraction set the group
\* and left the amount at zero, and one whose extraction left the group
\* empty, and appended nothing for either
C3_Witness ==
    /\ pc = "returned"
    /\ Emits = {}
    /\ \E i, j \in 1..Len(input) :
          /\ PassesSender(i) /\ ParseIntOk(input[i].Date)
          /\ ~BeforeStart(UnixTime(input[i].Date), startDate)
          /\ OutcomeOf(input[i]).extracted.TargetGroup # <<>>
          /\ OutcomeOf(input[i]).extracted.Amount = 0
          /\ PassesSender(j) /\ ParseIntOk(input[j].Date)
          /\ ~BeforeStart(UnixTime(input[j].Date), startDate)
          /\ OutcomeOf(input[j]).extracted.TargetGroup = <<>>

\* the body has one of the words "OTP", "password", "tasjil aldukhul", "code"
HasSkipWord(body) == \E k \in 1..Len(skipWords) : StrContains(body, skipWords[k])

\* C4: a message from "CIB" or "Banque Misr" whose body contains an OTP/login
\* word yields no Transaction.
C4_OtpMessageYieldsNothing ==
    \A e \in Emits :
        ~(SourceOf(e).Address \in KnownSenders /\ HasSkipWord(SourceOf(e).Body))

\* the body is a repayment notice: "tamma sadad", or "payment" and "received"
IsRepayment(body) ==
    \/ StrContains(body, kwCIB.repaid)
    \/ StrContains(body, Chars("payment")) /\ StrContains(body, Chars("received"))

\* the Transaction is filed under a credit-card bucket
OnCreditCard(tx) == HasPrefix(tx.TargetGroup, Chars("CIB_Credit_Card_"))

\* C5: a Transaction from a CIB credit-card repayment message has Type =
\* Income, leaves the extractor with Category = Financial expenses, is not
\* given to Categorize, and is appended with that Category.
C5_RepaymentIsFinancial ==
    \A e \in Emits :
        (/\ SourceOf(e).Address = Chars("CIB")
         /\ OnCreditCard(e[2])
         /\ IsRepayment(SourceOf(e).Body))
        => /\ e[2].Type = TypeIncome
           /\ OutcomeOf(SourceOf(e)).extracted.Category = CatFinancial
           /\ \A c \in {catCalls[k] : k \in 1..Len(catCalls)} : c[1] # e[1]
           /\ e[2].Category = CatFinancial

\* C6: Categorize is called only for a Transaction with a TargetGroup, a
\* non-zero Amount and Category General; a Category an extractor has set to
\* another value is appended unchanged and Categorize is not called for it.
C6_CategorizeOnlyWhenGeneral ==
    /\ \A k \in 1..Len(catCalls) :
          /\ catCalls[k][2].TargetGroup # <<>>
          /\ catCalls[k][2].Amount # 0
          /\ catCalls[k][2].Category = CatGeneral
    /\ \A e \in Emits :
          LET x == OutcomeOf(SourceOf(e)).extracted
          IN  x.Category # CatGeneral
              => /\ e[2].Category = x.Category
                 /\ \A k \in 1..Len(catCalls) : catCalls[k][1] # e[1]

\* a returned run in which a "transfer to another account" message with a
\* shopping keyword in its body has been appended as Financial expenses and
\* Categorize has been called for another message
C6_Witness ==
    /\ pc = "returned"
    /\ catCalls # <<>>
    /\ \E e \in Emits :
          /\ StrContains(SourceOf(e).Body, Chars("transfer to another account"))
          /\ StrContains(SourceOf(e).Body, Chars("amazon"))
          /\ e[2].Payee = Chars("Transfer to Account / CC")
          /\ e[2].Category = CatFinancial

-----------------------------------------------------------------------------
\* Properties of Categorize (specification SpecCategorize)

\* the keyword groups in their order of priority, each with its category
GroupOrder == <<
    <<financialTransferKeywords, CatFinancial>>,
    <<shoppingKeywords, CatShopping>>,
    <<furnitureKeywords, CatHousing>>,
    <<foodKeywords, CatFood>>,
    <<transportKeywords, CatTransport>>,
    <<vehicleKeywords, CatVehicle>>,
    <<housingKeywords, CatHousing>>,
    <<commsKeywords, CatComms>>,
    <<lifeKeywords, CatLife>>,
    <<financialKeywords, CatFinancial>> >>

\* the lowercased text of cleaned payee and note that is searched
SearchText(payee, note) == ToLower(CleanPayeeName(payee) \o Chars(" ") \o note)

\* the groups with a keyword that occurs in the text
GroupsHit(text) == {g \in 1..Len(GroupOrder) : Contains(text, GroupOrder[g][1])}

\* C7: Categorize returns Income for an amount > 0 whatever the keywords;
\* otherwise the category of the earliest group of the fixed order with a
\* keyword occurring in the text; and General when no group has one.
C7_FirstGroupWins ==
    pc = "done" =>
        LET hit == GroupsHit(SearchText(fnIn.payee, fnIn.note))
        IN  fnOut[1] = IF fnIn.amount > 0 THEN CatIncome
                       ELSE IF hit = {} THEN CatGeneral
                       ELSE GroupOrder[MinOf(hit)][2]

\* a text with a shopping and a food keyword and an amount that is not
\* positive has been categorized as Shopping
C7_Witness ==
    /\ pc = "done"
    /\ fnIn.amount <= 0
    /\ {2, 4} \subseteq GroupsHit(SearchText(fnIn.payee, fnIn.note))
    /\ 1 \notin GroupsHit(SearchText(fnIn.payee, fnIn.note))
    /\ fnOut[1] = CatShopping

-----------------------------------------------------------------------------
\* Properties of NormalizeCurrency (specification SpecCurrency)

\* C8: NormalizeCurrency applied to its own result returns that result, for
\* every token, and NormalizeCurrency("") is "EGP".
C8_NormalizeIdempotent ==
    /\ pc = "redone" => fnOut[2] = fnOut[1]
    /\ pc # "call" /\ fnIn = <<>> => fnOut[1] = Chars("EGP")

-----------------------------------------------------------------------------
\* Properties of CleanPayeeName (specification SpecClean)

\* the number of the first prefix of the list that s starts with, ignoring
\* case; 0 when there is none
FirstPrefix(s) ==
    LET hit == {k \in 1..Len(Prefixes) : HasPrefix(ToUpper(s), ToUpper(Prefixes[k]))}
    IN  IF hit = {} THEN 0 ELSE MinOf(hit)

\* what is done to the name once the prefix is off: the trailing digits and
\* the space around the name are removed
WithoutTrailingDigits(s) == TrimSpace(DeleteMatchesFrom(DigitsPattern, s, 1))

\* C9: CleanPayeeName removes only the first prefix of the list that
\* matches: the result is the rest after that one prefix, trimmed, with
\* nothing but the trailing digits removed from it.
C9_OnlyFirstPrefixStripped ==
    pc = "done" =>
        LET k == FirstPrefix(fnIn)
            rest == IF k = 0 THEN fnIn
                    ELSE TrimSpace(SliceFrom(fnIn, Len(Prefixes[k])))
        IN  fnOut[1] = IF fnIn = <<>> THEN <<>> ELSE WithoutTrailingDigits(rest)

\* two stacked prefixes before a name: the second prefix is kept
C9_Witness ==
    /\ pc = "done"
    /\ fnIn = Chars("PAYMOB FAWRY Carrefour")
    /\ fnOut[1] = Chars("FAWRY Carrefour")

\* a processor prefix in any letter case
C10_PrefixForms == {Chars("PAYMOB "), Chars("FAWRY "), Chars("fawry "), Chars("MY FAWRY")}

\* a run of digits at the end, with or without space before it
C10_DigitForms == {Chars(" 1234"), Chars("12")}

\* C10: CleanPayeeName removes a processor prefix at the start (in any
\* letter case) and a trailing run of digits with the space before it:
\* "FAWRY Carrefour 1234" gives "Carrefour", and "" gives "".
C10_PrefixAndDigitsRemoved ==
    pc = "done" =>
        /\ fnIn = Chars("FAWRY Carrefour 1234") => fnOut[1] = Chars("Carrefour")
        /\ fnIn = <<>> => fnOut[1] = <<>>
        /\ \A p \in C10_PrefixForms, d \in C10_DigitForms :
              fnIn = p \o Chars("Carrefour") \o d => fnOut[1] = Chars("Carrefour")

C10_Witness ==
    /\ pc = "done"
    /\ fnIn = Chars("FAWRY Carrefour 1234")
    /\ fnOut[1] = Chars("Carrefour")

-----------------------------------------------------------------------------
\* Properties of Writer.Write (specification SpecWrite)

\* the Transactions of s in ascending Date order, those of equal Date in the
\* order they have in s
StableByDate(s) ==
    LET p == CHOOSE q \in Permutations(1..Len(s)) :
                 \A i, j \in 1..Len(s) :
                     i < j => \/ StrLess(s[q[i]].Date, s[q[j]].Date)
                              \/ (s[q[i]].Date = s[q[j]].Date /\ q[i] < q[j])
    IN  [i \in 1..Len(s) |-> s[p[i]]]

\* C11: when Write has finished a bucket's file, the bucket and the file's
\* rows are in ascending timestamp order, and Transactions of equal timestamp
\* are in the order in which they arrived in the bucket (a stable sort).
C11_SortedAndStable ==
    pc = "returned" =>
        \A g \in DOMAIN fnOut :
            fnOut[g].complete =>
                /\ groupedData[g] = StableByDate(fnIn[g])
                /\ fnOut[g].rows = [i \in 1..Len(fnIn[g]) |->
                                       CsvRecord(StableByDate(fnIn[g])[i])]

-----------------------------------------------------------------------------
\* More properties of ParseFile (specification Spec)

\* the four digits the card pattern finds first in a body, <<>> if none
CardSuffix(body) ==
    With(FindStringSubmatch(ccPattern, 1, TRUE, body), LAMBDA m :
        IF Len(m) > 1 THEN Sub(m, 1) ELSE <<>>)

\* CardSuffix of every CIB message of the model's inputs, computed once
KnownSuffix ==
    [m \in {x \in InboxSet \cup Catalog \cup {Oldest} : x.Address = Chars("CIB")} |->
        CardSuffix(m.Body)] @@ <<>>

\* an appended Transaction of a CIB card that is neither 7759 nor 2373
IsCreditEmit(e) ==
    /\ SourceOf(e).Address = Chars("CIB")
    /\ KnownSuffix[SourceOf(e)] \notin {<<>>, Chars("7759"), Chars("2373")}

\* the bucket name of a credit-card suffix
CreditBucket(suffix) == Chars("CIB_Credit_Card_") \o suffix

\* the Transactions appended so far for the credit card of bucket g, in order
RECURSIVE CreditEmitsOf(_, _)
CreditEmitsOf(g, k) ==
    IF k = 0 THEN <<>>
    ELSE IF IsCreditEmit(emitLog[k]) /\ CreditBucket(KnownSuffix[SourceOf(emitLog[k])]) = g
         THEN Append(CreditEmitsOf(g, k - 1), emitLog[k][2])
         ELSE CreditEmitsOf(g, k - 1)

\* C12: at every point of a run the credit-card buckets are exactly the
\* buckets "CIB_Credit_Card_<suffix>" of the suffixes that have had a
\* Transaction appended, and each holds all the Transactions appended for its
\* suffix, and only those, in order: the first creates it, later ones are
\* appended to it, and no Transaction of another suffix is in it.
C12_OneBucketPerSuffix ==
    /\ \A k \in 1..Len(emitLog) :
          IsCreditEmit(emitLog[k]) =>
              /\ emitLog[k][2].TargetGroup = CreditBucket(KnownSuffix[SourceOf(emitLog[k])])
              /\ emitLog[k][2].TargetGroup \in DOMAIN groupedData
    /\ \A g \in DOMAIN groupedData :
          HasPrefix(g, Chars("CIB_Credit_Card_")) =>
              /\ groupedData[g] # <<>>
              /\ groupedData[g] = CreditEmitsOf(g, Len(emitLog))

\* a returned run that appended two Transactions of card 5678 and one of
\* card 1234
C12_Witness ==
    /\ pc = "returned"
    /\ Len(emitLog) = 3
    /\ \A k \in 1..3 : IsCreditEmit(emitLog[k])
    /\ Len(groupedData[CreditBucket(Chars("5678"))]) = 2
    /\ Len(groupedData[CreditBucket(Chars("1234"))]) = 1

\* the two buckets of the accounts known beforehand
BaseBuckets == {Chars("CIB_Current_Debit"), Chars("Banque_Misr")}

\* C13: from the start of the loop to a return without error the map holds
\* the buckets "CIB_Current_Debit" and "Banque_Misr", whatever the messages
\* are, and holds another bucket exactly when a Transaction has been filed
\* under it.
C13_BaseBucketsAlwaysExist ==
    (pc = "loop" \/ (pc = "returned" /\ err = "nil")) =>
        /\ BaseBuckets \subseteq DOMAIN groupedData
        /\ \A g \in DOMAIN groupedData \ BaseBuckets :
              \E e \in Emits : e[2].TargetGroup = g
        /\ \A e \in Emits : e[2].TargetGroup \in DOMAIN groupedData

\* a run over a backup all of whose messages were skipped returned the two
\* buckets, both empty, and nothing else
C13_Witness ==
    /\ pc = "returned"
    /\ err = "nil"
    /\ Len(input) = MaxMsgs
    /\ emitLog = <<>>
    /\ DOMAIN groupedData = BaseBuckets
    /\ \A g \in BaseBuckets : groupedData[g] = <<>>

\* for every Inbox message with a readable timestamp, the Transaction that
\* the extractor of its sender alone, followed by the categorization and the
\* note, makes of it; the Transaction literal for any other sender
ExpectedEmit ==
    [m \in {x \in InboxSet : ParseIntOk(x.Date)} |->
        With(NewTransaction(FormatDate(UnixTime(m.Date)), m.Body), LAMBDA tx :
            WithNote(ApplyCategory(
                IF m.Address = Chars("CIB") THEN parseCIBMessage(tx, m.Body)
                ELSE IF m.Address = Chars("Banque Misr")
                THEN parseBanqueMisrMessage(tx, m.Body)
                ELSE tx)))] @@ <<>>

\* C14: every appended Transaction comes from a message whose sender is
\* exactly "CIB" or "Banque Misr", is what the extractor of that sender alone
\* makes of the message (a CIB bucket for "CIB", the Banque_Misr bucket for
\* "Banque Misr"), and is appended once; Categorize is called only for such
\* messages; a message of any other sender neither appends anything nor makes
\* the run fail: an error is returned only before the first message.
C14_SenderSelectsExtractor ==
    /\ \A e \in Emits :
          /\ SourceOf(e).Address \in KnownSenders
          /\ SourceOf(e).Address = Chars("CIB") => HasPrefix(e[2].TargetGroup, Chars("CIB_"))
          /\ SourceOf(e).Address = Chars("Banque Misr") =>
                e[2].TargetGroup = Chars("Banque_Misr")
          /\ SourceOf(e) \in InboxSet => e[2] = ExpectedEmit[SourceOf(e)]
    /\ \A j, k \in 1..Len(emitLog) : emitLog[j][1] = emitLog[k][1] => j = k
    /\ \A k \in 1..Len(catCalls) : SourceOf(catCalls[k]).Address \in KnownSenders
    /\ \A i \in 1..idx : Transactional(i) => \E e \in Emits : e[1] = i
    /\ (pc = "returned" /\ idx > 0) => err = "nil"

\* a returned run over a message of sender "Other", one of sender "CIB|ref"
\* and one of sender "CIB", in any order, that appended one Transaction
C14_Witness ==
    /\ pc = "returned"
    /\ err = "nil"
    /\ senderFilter = <<>>
    /\ {input[i].Address : i \in 1..Len(input)} = {Chars("Other"), Chars("CIB|ref"), Chars("CIB")}
    /\ Len(emitLog) = 1
    /\ SourceOf(emitLog[1]).Address = Chars("CIB")

\* C15: every appended Transaction whose Category is not "General" has the
\* Note "[" Category "] " followed by the body of its message, the Category
\* being the one it is appended with; every appended Transaction whose
\* Category is "General" has the body as its Note.
C15_NoteCarriesCategory ==
    \A e \in Emits :
        e[2].Note = IF e[2].Category # CatGeneral
                    THEN Chars("[") \o Chars(e[2].Category) \o Chars("] ") \o SourceOf(e).Body
                    ELSE SourceOf(e).Body

\* a returned run that appended a Transaction whose Category Categorize
\* resolved and one whose Category the extractor set
C15_Witness ==
    /\ pc = "returned"
    /\ \E e \in Emits :
          /\ e[2].Category \notin {CatGeneral, CatFinancial}
          /\ \E k \in 1..Len(catCalls) : catCalls[k][1] = e[1]
    /\ \E e \in Emits :
          /\ e[2].Category = CatFinancial
          /\ \A k \in 1..Len(catCalls) : catCalls[k][1] # e[1]

\* C16: no error arises in the loop, a run that returns without error has
\* gone through all the messages, and every message examined so far that the
\* loop does not skip and whose extraction is complete has its Transaction
\* appended, whatever messages were skipped before it.
C16_SkipsDoNotStopTheRun ==
    /\ pc = "loop" => err = "none"
    /\ (pc = "returned" /\ err # "nil") => (idx = 0 /\ emitLog = <<>>)
    /\ (pc = "returned" /\ err = "nil") => idx = Len(input)
    /\ \A j \in 1..idx :
          Transactional(j) =>
              \E k \in 1..Len(emitLog) :
                  /\ emitLog[k] = <<j, OutcomeOf(input[j]).tx>>
                  /\ \A h \in 1..(k - 1) : emitLog[h][1] < j

\* a returned run whose first message has an unreadable timestamp, whose
\* second has an unknown sender, and whose last has its Transaction appended
C16_Witness ==
    /\ pc = "returned"
    /\ err = "nil"
    /\ Len(input) >= 3
    /\ ~ParseIntOk(input[1].Date)
    /\ input[2].Address \notin KnownSenders
    /\ Transactional(Len(input))
    /\ emitLog # <<>>
    /\ emitLog[Len(emitLog)][1] = Len(input)

\* the start-date parameter is written year-month-day with dashes
IsoShaped(s) == Len(s) = 10 /\ s[5] = "-" /\ s[8] = "-"

C18_SenderFilterBeforeDedup ==
    pc \in {"loop", "returned"} =>
        /\ senderFilter # <<>> =>
               /\ seenTransactions =
                      {MsgSignature(input[j]) :
                           j \in {h \in 1..idx : input[h].Address = senderFilter}}
               /\ \A e \in Emits : SourceOf(e).Address = senderFilter
               /\ \A j \in 1..idx :
                      /\ input[j].Address = senderFilter
                      /\ \A h \in 1..(j - 1) :
                             input[h].Address = senderFilter =>
                                 MsgSignature(input[h]) # MsgSignature(input[j])
                      /\ ParseIntOk(input[j].Date)
                      /\ ~BeforeStart(UnixTime(input[j].Date), startDate)
                      /\ OutcomeOf(input[j]).emitted
                      => \E e \in Emits : e[1] = j
        /\ senderFilter = <<>> =>
               seenTransactions = {MsgSignature(input[j]) : j \in 1..idx}

\* a returned run under the filter "CIB" in which a message of sender
\* "CIB|ref" was dropped and a later message of sender "CIB" with the same
\* signature had its Transaction appended
C18_Witness ==
    /\ pc = "returned"
    /\ senderFilter = Chars("CIB")
    /\ \E i, j \in 1..Len(input) :
          /\ i < j
          /\ input[i].Address = Chars("CIB|ref")
          /\ input[j].Address = Chars("CIB")
          /\ MsgSignature(input[i]) = MsgSignature(input[j])
          /\ MsgSignature(input[i]) \in seenTransactions
          /\ \E e \in Emits : e[1] = j
          /\ \A e \in Emits : e[1] # i

\* message j would be appended if there were no start date: it passes the
\* sender filter, is the first with its signature, has a readable timestamp
\* and a complete extraction
KeptButForDate(j) ==
    /\ PassesSender(j)
    /\ \A h \in 1..(j - 1) :
          PassesSender(h) => MsgSignature(input[h]) # MsgSignature(input[j])
    /\ ParseIntOk(input[j].Date)
    /\ OutcomeOf(input[j]).emitted

\* the day the start-date parameter names
StartDay == ParseDate(startDateFilter).days

\* C19: with a start date D every appended Transaction comes from a message
\* whose timestamp is not before the first second of D, so that no message
\* before that second has a Transaction, and a message at that very second
\* or later that nothing else skips has its Transaction appended; with no
\* start date every message that nothing else skips has its Transaction
\* appended, whatever its timestamp.
C19_StartDateInclusive ==
    pc \in {"loop", "returned"} =>
        /\ startDateFilter # <<>> =>
               /\ \A e \in Emits : UnixTime(SourceOf(e).Date).day >= StartDay
               /\ \A j \in 1..idx :
                      KeptButForDate(j) /\ UnixTime(input[j].Date).day >= StartDay
                          => \E e \in Emits : e[1] = j
        /\ startDateFilter = <<>> =>
               \A j \in 1..idx : KeptButForDate(j) => \E e \in Emits : e[1] = j

\* Arabic charges on the debit card 7759 and their amounts in cents
ArabicCharges == {<<bodyDebitAr, 15000>>, <<bodyDebitArUsd, 125075>>}

\* message j holds the Arabic charge c, whatever comes before and after it
HoldsCharge(j, c) ==
    \E a \in 0..(Len(input[j].Body) - Len(c[1])) :
        SubSeq(input[j].Body, a + 1, a + Len(c[1])) = c[1]

\* C20: a CIB message with an Arabic charge of amount a on the debit card
\* 7759 that the loop does not skip has exactly one Transaction, appended to
\* the bucket "CIB_Current_Debit" with Amount = -a, Type = Expense and
\* TargetGroup = "CIB_Current_Debit" (a = 150.00 gives -150.00).
C20_ArabicDebitCharge ==
    \A j \in 1..idx : \A c \in ArabicCharges :
        /\ input[j].Address = Chars("CIB")
        /\ HoldsCharge(j, c)
        /\ PassesSender(j)
        /\ \A h \in 1..(j - 1) :
              PassesSender(h) => MsgSignature(input[h]) # MsgSignature(input[j])
        /\ ParseIntOk(input[j].Date)
        /\ ~BeforeStart(UnixTime(input[j].Date), startDate)
        => /\ Cardinality({k \in 1..Len(emitLog) : emitLog[k][1] = j}) = 1
           /\ \A e \in Emits :
                 e[1] = j =>
                     /\ e[2].Amount = -c[2]
                     /\ e[2].Type = TypeExpense
                     /\ e[2].TargetGroup = Chars("CIB_Current_Debit")
                     /\ \E i \in 1..Len(groupedData[Chars("CIB_Current_Debit")]) :
                            groupedData[Chars("CIB_Current_Debit")][i] = e[2]

\* a returned run of three messages whose second is the Arabic charge of
\* 150.00 at Carrefour, appended with Amount -150.00 as the only Transaction
\* of the debit bucket
C20_Witness ==
    /\ pc = "returned"
    /\ err = "nil"
    /\ Len(input) = 3
    /\ input[2].Address = Chars("CIB")
    /\ input[2].Body = bodyDebitAr
    /\ Len(groupedData[Chars("CIB_Current_Debit")]) = 1
    /\ groupedData[Chars("CIB_Current_Debit")][1].Amount = -15000
    /\ groupedData[Chars("CIB_Current_Debit")][1].Type = TypeExpense
    /\ groupedData[Chars("CIB_Current_Debit")][1].Payee = Chars("Carrefour")
    /\ \E e \in Emits : e[1] = 2 /\ e[2] = groupedData[Chars("CIB_Current_Debit")][1]

-----------------------------------------------------------------------------
\* Further properties of ParseFile (specification Spec)

\* message j is not skipped by a filter, as a duplicate, or for its timestamp
Examined(j) ==
    /\ PassesSender(j)
    /\ \A h \in 1..(j - 1) :
          PassesSender(h) => MsgSignature(input[h]) # MsgSignature(input[j])
    /\ ParseIntOk(input[j].Date)
    /\ ~BeforeStart(UnixTime(input[j].Date), startDate)

\* incoming transfers of 500 without a decimal point, as <<sender, body>>
WholeTransfersIn == {<<Chars("Banque Misr"), bodyTransferIn>>, <<Chars("CIB"), bodyIpnWhole>>}

\* C21: a message with an incoming-transfer phrase and the amount 500,
\* written without a decimal point, that the loop does not skip has exactly
\* one Transaction, with Amount = 500.00, Type = Income and Payee =
\* "Transfer In".
C21_WholeAmountTransferIn ==
    \A j \in 1..idx :
        <<input[j].Address, input[j].Body>> \in WholeTransfersIn /\ Examined(j)
        => /\ Cardinality({k \in 1..Len(emitLog) : emitLog[k][1] = j}) = 1
           /\ \A e \in Emits :
                 e[1] = j => /\ e[2].Amount = 50000
                             /\ e[2].Type = TypeIncome
                             /\ e[2].Payee = Chars("Transfer In")

\* C22 (specification SpecFair): every call of ParseFile returns; the loop
\* position only moves from one message to the next, and a call that returns
\* without error has gone through every message of the input.
C22_TerminatesInOrder ==
    /\ <>(pc = "returned")
    /\ [](pc = "returned" /\ err = "nil" => idx = Len(input))
    /\ [][idx' = idx \/ (pc = "loop" /\ idx < Len(input) /\ idx' = idx + 1)]_vars

\* a call that returned after going through three messages
C22_Witness ==
    /\ pc = "returned"
    /\ err = "nil"
    /\ Len(input) = 3
    /\ idx = 3

\* the kinds of message each extractor knows, in the order the claim has them
\* tried, by their keywords
CreditKind(body) ==
    IF StrContains(body, Chars("charged for"))
       \/ StrContains(body, Chars("purchasing transaction"))
    THEN "charge"
    ELSE IF \/ StrContains(body, Chars("refunded")) \/ StrContains(body, Chars("rad"))
            \/ StrContains(body, kwCIB.refund)
    THEN "refund"
    ELSE IF IsRepayment(body) THEN "repayment"
    ELSE "none"

DebitKind(body) ==
    IF StrContains(body, Chars("7759"))
       /\ (\/ StrContains(body, Chars("charged for")) \/ StrContains(body, kwCIB.deduct)
           \/ StrContains(body, Chars("withdrawal")) \/ StrContains(body, kwCIB.withdraw))
    THEN "card"
    ELSE IF ~StrContains(body, Chars("2373")) THEN "none"
    ELSE IF \/ StrContains(body, Chars("debited")) \/ StrContains(body, Chars("charged with"))
            \/ StrContains(body, kwCIB.transferred)
    THEN "outgoing"
    ELSE IF \/ StrContains(body, Chars("credited")) \/ StrContains(body, kwCIB.transferAmount)
            \/ StrContains(body, Chars("add"))
    THEN "incoming"
    ELSE "none"

BanqueKind(body) ==
    IF StrContains(body, kwBM.transferred) \/ StrContains(body, kwBM.added)
    THEN "transfer"
    ELSE IF StrContains(body, kwBM.deducted) \/ StrContains(body, Chars("transaction"))
    THEN "purchase"
    ELSE "none"

\* C23: every appended Transaction comes from a body that matches a kind of
\* its extractor, and carries the fields of the first kind the body matches
\* and of no later one: a credit-card charge is an Expense and not named
\* "CIB Repayment", a credit-card refund is named "Refund", only a body that
\* is neither is named "CIB Repayment"; a debit-card charge and an outgoing
\* account movement are negative Expenses, an incoming one is Income; a
\* Banque Misr transfer is named "Transfer Out" or "Transfer In", a purchase
\* is a negative Expense.
C23_FirstKindOnly ==
    \A e \in Emits :
        LET body == SourceOf(e).Body
            tx == e[2]
        IN  IF SourceOf(e).Address = Chars("Banque Misr")
            THEN /\ BanqueKind(body) # "none"
                 /\ BanqueKind(body) = "transfer" =>
                        tx.Payee \in {Chars("Transfer Out"), Chars("Transfer In")}
                 /\ BanqueKind(body) = "purchase" =>
                        (tx.Amount < 0 /\ tx.Type = TypeExpense)
            ELSE IF IsCreditEmit(e)
            THEN /\ CreditKind(body) # "none"
                 /\ CreditKind(body) = "charge" =>
                        (tx.Type = TypeExpense /\ tx.Payee # Chars("CIB Repayment"))
                 /\ CreditKind(body) = "refund" => tx.Payee = Chars("Refund")
                 /\ CreditKind(body) = "repayment" => tx.Payee = Chars("CIB Repayment")
            ELSE /\ DebitKind(body) # "none"
                 /\ DebitKind(body) \in {"card", "outgoing"} =>
                        (tx.Amount < 0 /\ tx.Type = TypeExpense)
                 /\ DebitKind(body) = "incoming" => tx.Type = TypeIncome

\* the characters a decimal numeral is written with
NumeralChars == DigitSet \cup {",", "."}

\* the last position of the run of numeral characters that holds position a
RECURSIVE NumeralEnd(_, _)
NumeralEnd(body, a) ==
    IF a < Len(body) /\ body[a + 1] \in NumeralChars THEN NumeralEnd(body, a + 1) ELSE a

\* s without the full stops and commas that end it
RECURSIVE WithoutTrailingPunctuation(_)
WithoutTrailingPunctuation(s) ==
    IF s # <<>> /\ s[Len(s)] \in {",", "."}
    THEN WithoutTrailingPunctuation(SubSeq(s, 1, Len(s) - 1))
    ELSE s

\* the values, in cents, of the decimal numerals written in the body, each
\* read whole: grouping commas removed, fractional part included
NumeralsIn(body) ==
    {ParseFloat(RemoveCommas(WithoutTrailingPunctuation(SubSeq(body, a, NumeralEnd(body, a))))) :
        a \in {i \in 1..Len(body) :
                  /\ body[i] \in NumeralChars
                  /\ (i = 1 \/ body[i - 1] \notin NumeralChars)}}

\* NumeralsIn of every message of the model's inputs, computed once
KnownNumerals ==
    [m \in InboxSet \cup Catalog \cup {Oldest} |-> NumeralsIn(m.Body)] @@ <<>>

\* C24: the magnitude of the Amount of every appended Transaction is the
\* value of a decimal numeral of the body of its message, read with its
\* grouping commas removed and its fractional part included.
C24_AmountIsTheNumeral ==
    \A e \in Emits :
        (IF e[2].Amount < 0 THEN -e[2].Amount ELSE e[2].Amount) \in KnownNumerals[SourceOf(e)]

\* C25: only a message equal in timestamp, sender and body to an earlier
\* message that passed the sender filter is skipped as a duplicate: the
\* signatures recorded are as many as the different messages that passed the
\* sender filter, and a message that passed it, differs from every earlier
\* one that did, has a readable timestamp not before the start date and a
\* complete extraction has its Transaction appended.
C25_OnlyEqualMessagesAreDuplicates ==
    pc \in {"loop", "returned"} =>
        /\ Cardinality(seenTransactions)
               = Cardinality({input[j] : j \in {h \in 1..idx : PassesSender(h)}})
        /\ \A j \in 1..idx :
               /\ PassesSender(j)
               /\ \A h \in 1..(j - 1) : PassesSender(h) => input[h] # input[j]
               /\ ParseIntOk(input[j].Date)
               /\ ~BeforeStart(UnixTime(input[j].Date), startDate)
               /\ OutcomeOf(input[j]).emitted
               => \E e \in Emits : e[1] = j

\* g is a bucket name of the contract
IsGroupName(g) ==
    \/ g \in {Chars("CIB_Current_Debit"), Chars("Banque_Misr")}
    \/ /\ Len(g) = Len(Chars("CIB_Credit_Card_")) + 4
       /\ HasPrefix(g, Chars("CIB_Credit_Card_"))
       /\ AllDigits(SubSeq(g, Len(g) - 3, Len(g)))
       /\ SubSeq(g, Len(g) - 3, Len(g)) \notin {Chars("7759"), Chars("2373")}

\* C26: every bucket has a name of the contract and holds Transactions of
\* that TargetGroup only; each of them was appended for a message, and a
\* Transaction appended for a message is in the bucket of its TargetGroup;
\* the messages of the Transactions of "Banque_Misr" have the sender
\* "Banque Misr" and those of the "CIB_" buckets the sender "CIB".
C26_BucketsByNameAndSender ==
    (pc = "loop" \/ (pc = "returned" /\ err = "nil")) =>
       /\ \A g \in DOMAIN groupedData :
              /\ IsGroupName(g)
              /\ \A i \in 1..Len(groupedData[g]) :
                     /\ groupedData[g][i].TargetGroup = g
                     /\ \E e \in Emits : e[2] = groupedData[g][i]
       /\ \A e \in Emits :
              /\ e[2].TargetGroup \in DOMAIN groupedData
              /\ \E i \in 1..Len(groupedData[e[2].TargetGroup]) :
                     groupedData[e[2].TargetGroup][i] = e[2]
              /\ e[2].TargetGroup = Chars("Banque_Misr") =>
                     SourceOf(e).Address = Chars("Banque Misr")
              /\ HasPrefix(e[2].TargetGroup, Chars("CIB_")) =>
                     SourceOf(e).Address = Chars("CIB")

\* a returned run whose three messages, of the senders "CIB" and "Banque
\* Misr", filled the debit bucket, the Banque Misr bucket and the bucket of
\* card 1234 with one Transaction each
C26_Witness ==
    /\ pc = "returned"
    /\ err = "nil"
    /\ DOMAIN groupedData = {Chars("CIB_Current_Debit"), Chars("Banque_Misr"),
                             Chars("CIB_Credit_Card_1234")}
    /\ \A g \in DOMAIN groupedData : Len(groupedData[g]) = 1
    /\ {input[i].Address : i \in 1..Len(input)} = {Chars("CIB"), Chars("Banque Misr")}

\* the fields of a Transaction the comparison of the implementations lists
Listed(tx) ==
    [Payee |-> tx.Payee, Amount |-> tx.Amount, Currency |-> tx.Currency,
     Type |-> tx.Type, Category |-> tx.Category, Note |-> tx.Note]

\* the buckets of a result, each with the listed fields of its Transactions
ListedBuckets(data) ==
    [g \in DOMAIN data |-> [i \in 1..Len(data[g]) |-> Listed(data[g][i])]]

\* C27: once Parser.ParseFile, called with both filters empty, and
\* parseSMSBackup of main.go have both returned for the same input, they
\* return the same error, and the same buckets holding Transactions with the
\* same payee, amount, currency, type, category and note in the same order.
C27_SameAsSingleFile ==
    (pc = "returned" /\ fnIn.pc = "returned")
        => /\ err = fnIn.err
           /\ ListedBuckets(groupedData) = ListedBuckets(fnOut)

\* C28: at a return without error every bucket other than the two base
\* buckets holds a Transaction, and the buckets are the base buckets and
\* the TargetGroups of the appended Transactions: a message whose
\* extraction sets a TargetGroup and leaves Amount at zero adds no bucket.
C28_NoEmptyCardBucket ==
    (pc = "returned" /\ err = "nil") =>
        /\ \A g \in DOMAIN groupedData \ BaseBuckets : groupedData[g] # <<>>
        /\ DOMAIN groupedData = BaseBuckets \cup {e[2].TargetGroup : e \in Emits}

\* a returned run over the refund notice of card 9012, which names no
\* amount, and a purchase on card 1234: a bucket for 1234 and none for 9012
C28_Witness ==
    /\ pc = "returned"
    /\ err = "nil"
    /\ \E j \in 1..Len(input) :
          /\ Examined(j)
          /\ OutcomeOf(input[j]).extracted.TargetGroup = Chars("CIB_Credit_Card_9012")
          /\ OutcomeOf(input[j]).extracted.Amount = 0
    /\ DOMAIN groupedData = BaseBuckets \cup {Chars("CIB_Credit_Card_1234")}

\* the Transactions appended so far with TargetGroup g, in the order of
\* their appending
RECURSIVE EmitsOf(_, _)
EmitsOf(g, k) ==
    IF k = 0 THEN <<>>
    ELSE IF emitLog[k][2].TargetGroup = g
         THEN Append(EmitsOf(g, k - 1), emitLog[k][2])
         ELSE EmitsOf(g, k - 1)

\* C29: the Transactions are appended in the order of their messages, one
\* for a message at most, and every bucket lists the Transactions of its
\* TargetGroup in that order; a step of ParseFile leaves every bucket as it
\* was or adds one Transaction at its end, and leaves the Transactions
\* already in the buckets as they were.
C29_ArrivalOrderKept ==
    /\ []((pc = "loop" \/ (pc = "returned" /\ err = "nil")) =>
             /\ \A k \in 1..(Len(emitLog) - 1) : emitLog[k][1] < emitLog[k + 1][1]
             /\ \A g \in DOMAIN groupedData : groupedData[g] = EmitsOf(g, Len(emitLog)))
    /\ [][pc = "loop" =>
             \A g \in DOMAIN groupedData :
                 /\ g \in DOMAIN groupedData'
                 /\ Len(groupedData'[g]) \in {Len(groupedData[g]), Len(groupedData[g]) + 1}
                 /\ SubSeq(groupedData'[g], 1, Len(groupedData[g])) = groupedData[g]]_vars

\* a returned run whose first and third message went to the debit bucket,
\* in that order, and whose second went to another bucket
C29_Witness ==
    /\ pc = "returned"
    /\ err = "nil"
    /\ Len(emitLog) = 3
    /\ groupedData[Chars("CIB_Current_Debit")] = <<emitLog[1][2], emitLog[3][2]>>
    /\ emitLog[1][2] # emitLog[3][2]
    /\ emitLog[2][2].TargetGroup # Chars("CIB_Current_Debit")

-----------------------------------------------------------------------------
\* More properties of CleanPayeeName (specification SpecClean)

\* C30: CleanPayeeName applied to its own result returns that result, for
\* every payee.
C30_CleanIdempotent ==
    pc = "done" => CleanPayeeName(fnOut[1]) = fnOut[1]

====
